---- MODULE Spec2Model ----
(***************************************************************************)
(* rust_vpn: the server side of the relay (acceptor, worker loop, keepalive *)
(* reaper) over the length-prefixed, AEAD-encrypted frame protocol.         *)
(*                                                                          *)
(* Each action is one critical section of the code: the span during which  *)
(* one thread holds the session-table mutex (TcpServer.clients), together   *)
(* with the thread-local computation that precedes it.                      *)
(***************************************************************************)
EXTENDS Integers, Sequences, FiniteSets, TLC

(* ------------------------------ bounds -------------------------------- *)

\* frames all clients together put on the wire in one behaviour
MaxFrames == 2

\* remote addresses that connect; a session id is the address string
ClientIds == {1, 2}
\* the instants (seconds) at which the clock is read
Instants == {0, 1, 91}

\* frames all clients together put on the wire in the behaviours in which
\* termination is checked
MaxShutdownFrames == 1

\* chunks the client's socket holds in flight before a write blocks
MaxWire == 4

\* calls of send_packet and disconnect the caller makes on one client
MaxCalls == 2

\* how many calls of start_accept_loop and server_shutdown a run makes
MaxServerCalls == 3

(* ------------------------- program constants --------------------------- *)

StaleTimeout == 90
MaxPacketLen == 65535
NonceLen == 12
TagLen == 16
MinPacketSize == 8
HeaderLen == 10
RouteEntryLen == 16
DefaultMtu == 1500
DefaultKeepalive == 30
DefaultReconnect == 3
ClientMaxPacketLen == 65535
ConfigLen == 12
KeyLen == 32
LargeLen == 65536

(* ------------------------------ results -------------------------------- *)

\* Result<T, VpnError>: Ok(v), or Err of one VpnError variant with its text.
\* A panic of the running thread is the kind "Panic".
NoValue == <<>>

Ok(v) == [ok |-> TRUE, kind |-> "Ok", msg |-> "", val |-> v]

Err(kind, msg) == [ok |-> FALSE, kind |-> kind, msg |-> msg, val |-> NoValue]

\* impl From<&str> for VpnError: a bare string becomes GenericError
FromStr(msg) == Err("GenericError", msg)

(* --------------------------- packet structure --------------------------- *)

PacketTypes == {"Data", "Keepalive", "Control"}

ControlTypes == {"ConfigRequest", "ConfigResponse", "RouteUpdate", "Disconnect"}

\* `packet_type as u8`
PacketTypeAsU8(t) ==
    CASE t = "Data" -> 0
      [] t = "Keepalive" -> 1
      [] t = "Control" -> 2

\* TryFrom<u8> for PacketType
PacketTypeTryFrom(b) ==
    CASE b = 0 -> Ok("Data")
      [] b = 1 -> Ok("Keepalive")
      [] b = 2 -> Ok("Control")
      [] OTHER -> Err("Protocol", "Invalid packet type")

\* `control_type as u8`
ControlTypeAsU8(c) ==
    CASE c = "ConfigRequest" -> 0
      [] c = "ConfigResponse" -> 1
      [] c = "RouteUpdate" -> 2
      [] c = "Disconnect" -> 3

\* TryFrom<u8> for ControlType
ControlTypeTryFrom(b) ==
    CASE b = 0 -> Ok("ConfigRequest")
      [] b = 1 -> Ok("ConfigResponse")
      [] b = 2 -> Ok("RouteUpdate")
      [] b = 3 -> Ok("Disconnect")
      [] OTHER -> Err("Protocol", "Invalid control type")

\* Option<ControlType>::None
None == "None"

VpnPacket(src, dst, pt, ct, payload) ==
    [source_ip |-> src, dest_ip |-> dst, packet_type |-> pt,
     control_type |-> ct, payload |-> payload]

ZeroIp == <<0, 0, 0, 0>>

new_data(src, dst, payload) == VpnPacket(src, dst, "Data", None, payload)

new_keepalive == VpnPacket(ZeroIp, ZeroIp, "Keepalive", None, <<>>)

new_control(ct) == VpnPacket(ZeroIp, ZeroIp, "Control", ct, <<>>)

set_payload(p, payload) == [p EXCEPT !.payload = payload]

(* ----------------------------- encryption ------------------------------ *)

\* A ciphertext is nonce || AES-256-GCM(plaintext) || tag.  The cipher is
\* modelled by its contract: `len` is the number of bytes, `ct` the
\* plaintext the body decrypts to under the shared key, and `tag_ok` whether
\* the tag authenticates nonce and body (FALSE after any tampering, or for
\* bytes that were never produced by encrypt).
Ciphertext(len, ct, tag_ok) == [len |-> len, ct |-> ct, tag_ok |-> tag_ok]

\* data.len(), where a negative element -n of a byte sequence stands for a
\* run of n equal bytes (vec![b; n]), so that a buffer of 64 KiB is one element
RECURSIVE ByteLen(_)
ByteLen(data) ==
    IF data = <<>>
    THEN 0
    ELSE (IF Head(data) < 0 THEN 0 - Head(data) ELSE 1) + ByteLen(Tail(data))

\* EncryptionManager::encrypt
encrypt(data) == Ciphertext(NonceLen + ByteLen(data) + TagLen, data, TRUE)

\* EncryptionManager::decrypt
decrypt(data) ==
    IF data.len < NonceLen
    THEN FromStr("Data too short")
    ELSE IF ~data.tag_ok
         THEN Err("Encryption", "aead::Error")
         ELSE Ok(data.ct)

\* vec![]: the empty buffer
EmptyBuf == Ciphertext(0, <<>>, FALSE)

(* The same two methods on bytes.  Aes256Gcm is a library; it is stood in   *)
(* for by a keystream cipher with a 16-byte checksum tag over key, nonce    *)
(* and body, which has the two properties of an AEAD the code relies on:    *)
(* decryption inverts encryption under the same key and nonce, and a change *)
(* of one byte of nonce, body or tag fails authentication.                  *)

\* the keys (32 bytes) the EncryptionManager is built with
Keys == { [i \in 1..KeyLen |-> 7], [i \in 1..KeyLen |-> (i * 13) % 256] }

\* the values rng.fill may give the 12 nonce bytes
Nonces == { [i \in 1..NonceLen |-> 0], [i \in 1..NonceLen |-> (i * 31) % 256] }

RECURSIVE SumBytes(_)
SumBytes(s) == IF s = <<>> THEN 0 ELSE (Head(s) + SumBytes(Tail(s))) % 256

KeyStream(key, nonce, i) ==
    (key[((i - 1) % KeyLen) + 1] + nonce[((i - 1) % NonceLen) + 1] + i) % 256

Tag(key, nonce, body) ==
    LET sum == SumBytes(key) + SumBytes(nonce) + SumBytes(body)
    IN  [j \in 1..TagLen |-> (sum + j) % 256]

\* cipher.encrypt(nonce, data): body || tag
aead_encrypt(key, nonce, plaintext) ==
    LET body == [i \in 1..Len(plaintext) |->
                    (plaintext[i] + KeyStream(key, nonce, i)) % 256]
    IN  body \o Tag(key, nonce, body)

\* cipher.decrypt(nonce, ciphertext)
aead_decrypt(key, nonce, ciphertext) ==
    IF Len(ciphertext) < TagLen
    THEN Err("aead", "aead::Error")
    ELSE LET n == Len(ciphertext) - TagLen
             body == SubSeq(ciphertext, 1, n)
             tag == SubSeq(ciphertext, n + 1, Len(ciphertext))
         IN  IF tag # Tag(key, nonce, body)
             THEN Err("aead", "aead::Error")
             ELSE Ok([i \in 1..n |->
                        (body[i] + 256 - KeyStream(key, nonce, i)) % 256])

\* EncryptionManager::encrypt with the nonce the generator gave: the nonce
\* is prepended to the output of the cipher
encrypt_bytes(key, nonce, data) == Ok(nonce \o aead_encrypt(key, nonce, data))

\* a decrypt that passes the failure of the cipher on as a GenericError
decrypt_bytes_generic(key, data) ==
    IF Len(data) < NonceLen
    THEN FromStr("Data too short")
    ELSE LET nonce_bytes == SubSeq(data, 1, NonceLen)
             ciphertext == SubSeq(data, NonceLen + 1, Len(data))
             plaintext == aead_decrypt(key, nonce_bytes, ciphertext)
         IN  IF ~plaintext.ok
             THEN FromStr(plaintext.msg)
             ELSE plaintext

\* EncryptionManager::decrypt: the length test, split_at(12), the cipher,
\* its failure mapped to VpnError::Encryption
decrypt_bytes(key, data) ==
    IF Len(data) < NonceLen
    THEN FromStr("Data too short")
    ELSE LET nonce_bytes == SubSeq(data, 1, NonceLen)
             ciphertext == SubSeq(data, NonceLen + 1, Len(data))
             plaintext == aead_decrypt(key, nonce_bytes, ciphertext)
         IN  IF ~plaintext.ok
             THEN Err("Encryption", plaintext.msg)
             ELSE plaintext

(* ------------------------------ frame codec ---------------------------- *)

\* a pack that pushes the control-type byte only when control_type is present
PlainBytes_nocontrol(packet) ==
    packet.source_ip \o packet.dest_ip
      \o << PacketTypeAsU8(packet.packet_type) >>
      \o (IF packet.control_type = None
          THEN <<>>
          ELSE << ControlTypeAsU8(packet.control_type) >>)
      \o packet.payload

\* ProtocolHandler::pack: the 10-byte header, the payload, then encrypt
PlainBytes(packet) ==
    packet.source_ip \o packet.dest_ip
      \o << PacketTypeAsU8(packet.packet_type),
            IF packet.control_type = None
            THEN ControlTypeAsU8("ConfigRequest")
            ELSE ControlTypeAsU8(packet.control_type) >>
      \o packet.payload

pack(packet) == encrypt(PlainBytes(packet))

\* a parse that converts the control-type byte whatever the packet type is
ParsePlain_eager(decrypted) ==
    IF Len(decrypted) < HeaderLen
    THEN Err("Panic", "range start index 10 out of range")
    ELSE LET source_ip == SubSeq(decrypted, 1, 4)
             dest_ip == SubSeq(decrypted, 5, 8)
             payload == SubSeq(decrypted, HeaderLen + 1, Len(decrypted))
             packet_type == PacketTypeTryFrom(decrypted[9])
             control_type == ControlTypeTryFrom(decrypted[10])
         IN  IF ~packet_type.ok
             THEN Err("Protocol", "Invalid packet type")
             ELSE IF ~control_type.ok
                  THEN Err("Protocol", "Invalid control type")
                  ELSE Ok(VpnPacket(source_ip, dest_ip, packet_type.val,
                                    IF packet_type.val = "Control"
                                    THEN control_type.val ELSE None,
                                    payload))

\* the parse that follows the size check of unpack; decrypted[10..] is
\* taken before the type bytes are looked at and panics (slice start out of
\* range) when fewer than 10 bytes were decrypted
ParsePlain(decrypted) ==
    IF Len(decrypted) < HeaderLen
    THEN Err("Panic", "range start index 10 out of range")
    ELSE LET source_ip == SubSeq(decrypted, 1, 4)
             dest_ip == SubSeq(decrypted, 5, 8)
             payload == SubSeq(decrypted, HeaderLen + 1, Len(decrypted))
             packet_type == PacketTypeTryFrom(decrypted[9])
         IN  IF ~packet_type.ok
             THEN Err("Protocol", "Invalid packet type")
             ELSE IF packet_type.val = "Control"
                  THEN LET control_type == ControlTypeTryFrom(decrypted[10])
                       IN  IF ~control_type.ok
                           THEN Err("Protocol", "Invalid control type")
                           ELSE Ok(VpnPacket(source_ip, dest_ip, packet_type.val,
                                             control_type.val, payload))
                  ELSE Ok(VpnPacket(source_ip, dest_ip, packet_type.val,
                                    None, payload))

\* ProtocolHandler::unpack
unpack(data) ==
    LET decrypted == decrypt(data)
    IN  IF ~decrypted.ok
        THEN decrypted
        ELSE IF Len(decrypted.val) < MinPacketSize
             THEN FromStr("Invalid packet size")
             ELSE ParsePlain(decrypted.val)

(* ------------------------ routes and configuration --------------------- *)

RouteEntry(network, mask, next_hop, metric) ==
    [target_network |-> network, network_mask |-> mask,
     next_hop |-> next_hop, metric |-> metric]

\* u32::from_be_bytes
U32FromBe(b) == ((b[1] * 256 + b[2]) * 256 + b[3]) * 256 + b[4]

\* u32::to_be_bytes, for the values below 2^31 that occur here
U32ToBe(v) ==
    << v \div 16777216, (v \div 65536) % 256, (v \div 256) % 256, v % 256 >>

RECURSIVE ParseRoutes(_)
ParseRoutes(payload) ==
    IF Len(payload) = 0
    THEN <<>>
    ELSE << RouteEntry(SubSeq(payload, 1, 4), SubSeq(payload, 5, 8),
                       SubSeq(payload, 9, 12),
                       U32FromBe(SubSeq(payload, 13, 16))) >>
           \o ParseRoutes(SubSeq(payload, RouteEntryLen + 1, Len(payload)))

\* a parse that takes the whole entries and ignores what is left over
parse_route_updates_lenient(payload) ==
    Ok(ParseRoutes(SubSeq(payload, 1,
                          Len(payload) - (Len(payload) % RouteEntryLen))))

\* a parse that stops before the last entry
parse_route_updates_short(payload) ==
    IF Len(payload) % RouteEntryLen # 0
    THEN Err("Protocol", "Invalid route update payload length")
    ELSE Ok(ParseRoutes(SubSeq(payload, 1, Len(payload) - RouteEntryLen)))

\* VpnWorker::parse_route_updates
parse_route_updates(payload) ==
    IF Len(payload) % RouteEntryLen # 0
    THEN Err("Protocol", "Invalid route update payload length")
    ELSE Ok(ParseRoutes(payload))

VpnConfig(mtu, keepalive, reconnect) ==
    [mtu |-> mtu, keepalive_interval |-> keepalive, reconnect_attempts |-> reconnect]

\* the value send_config inserts for a session without a config entry
DefaultConfig == VpnConfig(DefaultMtu, DefaultKeepalive, DefaultReconnect)

\* VpnWorker::serialize_config
serialize_config(config) ==
    U32ToBe(config.mtu) \o U32ToBe(config.keepalive_interval)
      \o U32ToBe(config.reconnect_attempts)

(* The same encoding with the widths of the fields kept: mtu is a usize and *)
(* the seconds of keepalive_interval a u64, each given as 8 big-endian      *)
(* bytes, reconnect_attempts a u32 given as 4; a Duration also has a        *)
(* sub-second part.                                                         *)

\* `x as u32`: the low 32 bits
AsU32(word) == SubSeq(word, Len(word) - 3, Len(word))

\* `x as usize`, `x as u64` on a u32: zero extension
AsU64(word) == <<0, 0, 0, 0>> \o word

Duration(secs, nanos) == [secs |-> secs, nanos |-> nanos]

\* Duration::from_secs
from_secs(secs) == Duration(secs, 0)

\* a serialize_config that writes the keepalive seconds before the mtu
serialize_config_be_swapped(c) ==
    AsU32(c.keepalive_interval.secs) \o AsU32(c.mtu) \o c.reconnect_attempts

\* VpnService::serialize_config / VpnWorker::serialize_config
serialize_config_be(c) ==
    AsU32(c.mtu) \o AsU32(c.keepalive_interval.secs) \o c.reconnect_attempts

\* VpnConfig::from_bytes
from_bytes_be(bytes) ==
    IF Len(bytes) < ConfigLen
    THEN Err("Protocol", "Config data too short")
    ELSE Ok(VpnConfig(AsU64(SubSeq(bytes, 1, 4)),
                      from_secs(AsU64(SubSeq(bytes, 5, 8))),
                      SubSeq(bytes, 9, 12)))

\* VpnWorker::process_data_packet
process_data_packet(packet) ==
    VpnPacket(packet.dest_ip, packet.source_ip, "Data",
              packet.control_type, packet.payload)

(* --------------------------------- maps -------------------------------- *)

EmptyMap == [k \in {} |-> NoValue]

MapInsert(m, k, v) == [x \in DOMAIN m \cup {k} |-> IF x = k THEN v ELSE m[x]]

MapRemove(m, k) == [x \in DOMAIN m \ {k} |-> m[x]]

MapOrInsert(m, k, v) == IF k \in DOMAIN m THEN m ELSE MapInsert(m, k, v)

(* ------------------------------- the wire ------------------------------ *)

\* One frame a client wrote: the 4-byte big-endian length prefix, the body,
\* and how much of it is readable when the worker visits the session:
\* "whole", or "partial" (the prefix and a part of the body).  "torn" is what
\* is left at the head of a stream after a read gave up inside a frame.
WireFrame(len, body, arrived) == [len |-> len, body |-> body, arrived |-> arrived]

\* TcpClient::write_packet / TcpServer::write_packet: prefix = packet.len() as u32
Framed(packet) == WireFrame(packet.len, packet, "whole")

Torn == WireFrame(0, EmptyBuf, "torn")

IpA == <<192, 168, 1, 1>>

IpB == <<192, 168, 1, 2>>

\* the payload client s puts in its Data frames (distinct per client)
PayloadOf(s) == <<72, s>>

RoutePayloadOf(s) == <<10, 0, s, 0, 255, 255, 255, 0, 10, 0, 0, 1, 0, 0, 0, s>>

DataFrame(s) == Framed(pack(new_data(IpA, IpB, PayloadOf(s))))

KeepaliveFrame == Framed(pack(new_keepalive))

ControlFrame(ct) == Framed(pack(new_control(ct)))

RouteUpdateFrame(s) ==
    Framed(pack(set_payload(new_control("RouteUpdate"), RoutePayloadOf(s))))

\* a RouteUpdate whose payload is one byte short of an entry
BadRouteUpdateFrame(s) ==
    Framed(pack(set_payload(new_control("RouteUpdate"),
                            SubSeq(RoutePayloadOf(s), 1, RouteEntryLen - 1))))

\* a well-encrypted plaintext whose packet-type byte is 3
BadTypeFrame == Framed(encrypt(IpA \o IpB \o <<3, 0>>))

\* a well-encrypted plaintext of 9 bytes (8 <= length < 10)
ShortPlainFrame == Framed(encrypt(IpA \o IpB \o <<0>>))

\* a Data frame one byte of which was changed after encryption
BadTagFrame(s) ==
    Framed(Ciphertext(NonceLen + HeaderLen + 2 + TagLen,
                      PlainBytes(new_data(IpA, IpB, PayloadOf(s))), FALSE))

\* a 5-byte body: shorter than the nonce
ShortBodyFrame == Framed(Ciphertext(5, <<>>, FALSE))

\* a length prefix above the ceiling; the body is never decrypted
OversizeFrame ==
    WireFrame(MaxPacketLen + 1, Ciphertext(MaxPacketLen + 1, <<>>, TRUE), "whole")

\* a Data frame whose body has not wholly arrived when it is read
PartialFrame(s) == [DataFrame(s) EXCEPT !.arrived = "partial"]

\* the frames client s may put on the wire
ClientFrames(s) ==
    { DataFrame(s), KeepaliveFrame, ControlFrame("ConfigRequest"),
      ControlFrame("ConfigResponse"), RouteUpdateFrame(s),
      BadRouteUpdateFrame(s),
      ControlFrame("Disconnect"), BadTypeFrame,
      ShortPlainFrame, BadTagFrame(s), ShortBodyFrame, OversizeFrame,
      PartialFrame(s) }

(* ---------------------------- codec inputs ----------------------------- *)

\* the packets pack is applied to: control_type is present when the packet
\* is a Control packet, and may be present or absent otherwise
CodecPackets ==
    { VpnPacket(src, IpB, pt, ct, payload) :
        src \in {IpA, ZeroIp}, pt \in PacketTypes,
        ct \in ControlTypes \cup {None}, payload \in {<<>>, PayloadOf(1)} }
    \ { VpnPacket(src, IpB, "Control", None, payload) :
        src \in {IpA, ZeroIp}, payload \in {<<>>, PayloadOf(1)} }

\* byte sequences of 0 to 11 bytes: the prefixes of a header, and the
\* headers with the type bytes in and out of range, with and without a byte
\* of payload
CodecBytes ==
    { SubSeq(IpA \o IpB \o <<0, 0>>, 1, n) : n \in 0..(HeaderLen - 1) }
    \cup { IpA \o IpB \o <<pt, ct>> \o payload :
              pt \in {0, 1, 2, 3, 255}, ct \in {0, 1, 2, 3, 4, 255},
              payload \in {<<>>, <<7>>} }

\* route payloads of 15 to 33 bytes: one and two entries, and those with a
\* byte missing or a byte too many
RoutePayloads ==
    { SubSeq(RoutePayloadOf(1) \o RoutePayloadOf(2) \o <<9>>, 1, n) :
        n \in { RouteEntryLen - 1, RouteEntryLen, RouteEntryLen + 1,
                2 * RouteEntryLen - 1, 2 * RouteEntryLen,
                2 * RouteEntryLen + 1 } }

\* 64-bit and 32-bit values as big-endian bytes
Word64s ==
    { <<0, 0, 0, 0, 0, 0, 5, 220>>, <<0, 0, 0, 0, 0, 0, 0, 30>>,
      <<0, 0, 0, 0, 255, 255, 255, 255>>, <<0, 0, 0, 1, 0, 0, 5, 220>>,
      <<255, 0, 0, 0, 0, 0, 0, 0>> }

Word32s == { <<0, 0, 0, 3>>, <<255, 255, 255, 255>> }

\* the configurations serialize_config is applied to
WideConfigs ==
    { VpnConfig(mtu, Duration(secs, nanos), reconnect) :
        mtu \in Word64s, secs \in Word64s, nanos \in {0, 500},
        reconnect \in Word32s }

WideDefaultConfig ==
    VpnConfig(<<0, 0, 0, 0, 0, 0, 5, 220>>,
              from_secs(<<0, 0, 0, 0, 0, 0, 0, 30>>), <<0, 0, 0, 3>>)

CodecInput(packet, bytes, key, nonce) ==
    [packet |-> packet, bytes |-> bytes, key |-> key, nonce |-> nonce,
     config |-> WideDefaultConfig]

CodecInputs ==
    { CodecInput(p, <<>>, [i \in 1..KeyLen |-> 7], [i \in 1..NonceLen |-> 0]) :
        p \in CodecPackets }
    \cup { CodecInput(new_keepalive, b, key, nonce) :
              b \in CodecBytes, key \in Keys, nonce \in Nonces }
    \cup { CodecInput(new_keepalive, b, [i \in 1..KeyLen |-> 7],
                      [i \in 1..NonceLen |-> 0]) : b \in RoutePayloads }
    \cup { [CodecInput(new_keepalive, <<>>, [i \in 1..KeyLen |-> 7],
                       [i \in 1..NonceLen |-> 0]) EXCEPT !.config = c] :
              c \in WideConfigs }

\* an input no operation was applied to yet
CodecIdle(input) == [op |-> "input", in |-> input, pos |-> 0, out |-> Err("Pending", "")]

\* no application of the codec on its own
NoCodec == [op |-> "none", in |-> CodecInput(new_keepalive, <<>>, <<>>, <<>>),
            pos |-> 0, out |-> Err("Pending", "")]

(* -------------------------------- state -------------------------------- *)

VARIABLES
    clients,         \* TcpServer.clients: id -> ClientInfo {stream, last_seen}
    outbound,        \* per connection, the frames the server wrote to it
    routes,          \* VpnWorker.routes: id -> Vec<RouteEntry>
    client_configs,  \* VpnWorker.client_configs: id -> VpnConfig
    shutdown_flag,   \* the AtomicBool all loops poll
    accepted,        \* the addresses whose connection was accepted so far
    nframes,         \* frames put on the wire so far
    now,             \* Instant::now(), in seconds
    a_pc,            \* acceptor: position in the loop of start_accept_loop
    w_pc,            \* worker: position in main_loop
    w_ids,           \* worker: ids of the snapshot not yet visited
    w_cur,           \* worker: client_id of the current iteration
    w_pkt,           \* worker: the packet handle_client_packet unpacked
    w_res,           \* worker: the Result of handle_client_packet
    r_pc,            \* reaper: position in check_client_keepalive
    r_stale,         \* reaper: ids collected and not yet removed
    r_collected,     \* reaper: ids the current tick collected
    connected,       \* VpnClient.connected
    client_thread,   \* VpnClient.client_thread: None, or Some(JoinHandle)
    client_shutdown, \* VpnClient.shutdown_flag
    config,          \* VpnClient.config
    c_op,            \* caller thread: the VpnClient method it is in
    c_pc,            \* caller thread: position in that method
    c_frame,         \* caller thread: the frame write_packet is writing
    c_res,           \* caller thread: the Result the last call returned
    c_calls,         \* the calls of send_packet and disconnect so far, in order
    c_first,         \* the Result of the read of the handshake
    hb_pc,           \* heartbeat thread: position in the closure of start_keepalive
    c_wire,          \* the client's stream: the chunks written and not yet read
    s_pc,            \* supervisor: the stage of VpnService::shutdown it is at
    s_res,           \* supervisor: Ok, or the first failure of a stage so far
    codec,           \* one application of the codec: its input, operation and result
    c_rd,            \* the client's stream: how many frames of the server it has read
    listener_thread, \* TcpServer.listener_thread: None, or Some(JoinHandle)
    ss_pc,           \* the caller of server_shutdown: its position in the method
    ss_log,          \* the calls on the TcpServer so far and what they returned
    locks,           \* per mutex that is locked, the thread that holds its guard
    poisoned,        \* the mutexes a thread panicked with the guard held
    t_todo           \* per server thread inside a handler, the steps it has left

server_vars == << clients, outbound, routes, client_configs, shutdown_flag,
                  accepted, nframes, now, a_pc, w_pc, w_ids, w_cur, w_pkt,
                  w_res, r_pc, r_stale, r_collected >>

client_vars == << connected, client_thread, client_shutdown, config, c_op,
                  c_pc, c_frame, c_res, c_calls, c_first, hb_pc, c_wire >>

supervisor_vars == << s_pc, s_res >>

listener_vars == << listener_thread, ss_pc, ss_log >>

lock_vars == << locks, poisoned, t_todo >>

other_vars == << c_rd, listener_vars, lock_vars >>

vars == << server_vars, client_vars, supervisor_vars, codec, other_vars >>

worker_vars == << w_pc, w_ids, w_cur, w_pkt, w_res >>

reaper_vars == << r_pc, r_stale, r_collected >>

table_vars == << routes, client_configs >>

env_vars == << shutdown_flag, accepted, nframes, now >>

\* the mutexes of the server: the TcpServer handle the workers share, the
\* session table inside it, the protocol handler, and the two tables
Mutexes == {"server", "clients", "protocol_handler", "routes", "client_configs"}

\* the threads of the server: two workers, the reaper and the acceptor
Threads == {"worker1", "worker2", "reaper", "acceptor"}

NoThread == "none"

ClientInfo(stream, last_seen) == [stream |-> stream, last_seen |-> last_seen]

NoClient == 0

NoPacket == VpnPacket(ZeroIp, ZeroIp, "Keepalive", None, <<>>)

Pending == Err("Pending", "")

\* no frame: the caller is not inside write_packet
NoFrame == WireFrame(0, EmptyBuf, "none")

\* the state after VpnService::new and VpnClient::new, before any thread ran
InitBase ==
    /\ clients = EmptyMap
    /\ outbound = [s \in ClientIds |-> <<>>]
    /\ routes = EmptyMap
    /\ client_configs = EmptyMap
    /\ shutdown_flag = FALSE
    /\ accepted = {}
    /\ nframes = 0
    /\ now = 0
    /\ w_pc = "loop"
    /\ w_ids = {}
    /\ w_cur = NoClient
    /\ w_pkt = NoPacket
    /\ w_res = Pending
    /\ r_pc = "sleep"
    /\ r_stale = {}
    /\ r_collected = {}
    /\ connected = FALSE
    /\ client_thread = None
    /\ client_shutdown = FALSE
    /\ config = DefaultConfig
    /\ c_op = "new"
    /\ c_pc = "start"
    /\ c_frame = NoFrame
    /\ c_res = Pending
    /\ c_calls = <<>>
    /\ c_first = Pending
    /\ hb_pc = "unspawned"
    /\ c_wire = <<>>
    /\ s_pc = "running"
    /\ s_res = Ok(NoValue)
    /\ c_rd = 0
    /\ ss_pc = "idle"
    /\ ss_log = <<>>
    /\ locks = EmptyMap
    /\ poisoned = {}
    /\ t_todo = EmptyMap

\* and after VpnService::start has called start_accept_loop
InitState ==
    /\ InitBase
    /\ a_pc = "loop"
    /\ listener_thread = "Some"

Init == InitState /\ codec = NoCodec

(* ----------------------- TcpServer: session table ----------------------- *)

\* TcpServer::remove_client
remove_client(client_id) == clients' = MapRemove(clients, client_id)

\* TcpServer::get_client_ids
get_client_ids == DOMAIN clients

\* a reaper that also collects a session aged exactly the timeout
IsStale_inclusive(info) == now - info.last_seen >= StaleTimeout

\* the filter of TcpServer::get_stale_clients: last_seen.elapsed() > timeout
IsStale(info) == now - info.last_seen > StaleTimeout

\* TcpServer::get_stale_clients
get_stale_clients == { id \in DOMAIN clients : IsStale(clients[id]) }

\* a service_read_packet without the ceiling on the length prefix
ReadOutcomes_unbounded(info) ==
    IF info.stream = <<>>
    THEN { [res |-> Ok(EmptyBuf), info |-> info] }
    ELSE LET head == Head(info.stream)
             rest == Tail(info.stream)
         IN  IF head.arrived # "whole"
             THEN { [res |-> Err("Io", "WouldBlock"), info |-> info] }
             ELSE { [res |-> Ok(head.body), info |-> ClientInfo(rest, now)] }

\* TcpServer::service_read_packet on a session that is in the table: the
\* possible pairs of returned Result and ClientInfo afterwards
ReadOutcomes(info) ==
    IF info.stream = <<>>
    THEN \* peek: WouldBlock or fewer than 4 bytes
         { [res |-> Ok(EmptyBuf), info |-> info] }
    ELSE LET head == Head(info.stream)
             rest == Tail(info.stream)
         IN  IF head.arrived = "torn"
             THEN \* the bytes left of an abandoned frame are read as a length
                  \* prefix: above the ceiling, or a length whose body is not there
                  { [res |-> Err("Protocol", "Packet too large"),
                     info |-> ClientInfo(rest, info.last_seen)],
                    [res |-> Err("Io", "WouldBlock"), info |-> info] }
             ELSE IF head.len > MaxPacketLen
                  THEN \* the prefix is consumed, the body stays in the stream
                       { [res |-> Err("Protocol", "Packet too large"),
                          info |-> ClientInfo(<<Torn>> \o rest, info.last_seen)] }
                  ELSE IF head.arrived = "partial"
                       THEN \* read_exact of the body on the non-blocking stream
                            { [res |-> Err("Io", "WouldBlock"),
                               info |-> ClientInfo(<<Torn>> \o rest, info.last_seen)] }
                       ELSE { [res |-> Ok(head.body),
                               info |-> ClientInfo(rest, now)] }

\* TcpServer::update_client_timestamp; res is the Result it returns
update_client_timestamp(client_id, res) ==
    IF client_id \in DOMAIN clients
    THEN /\ clients' = [clients EXCEPT ![client_id].last_seen = now]
         /\ res = Ok(NoValue)
    ELSE /\ UNCHANGED clients
         /\ res = Err("ClientNotFound", "")

\* the Results write_packet may return
WriteResults == { Ok(NoValue), Err("Io", "write"), Err("ClientNotFound", "") }

\* a write_packet that picks the stream of whichever session is in the table
write_packet_any(client_id, packet, res) ==
    /\ UNCHANGED clients
    /\ IF client_id \notin DOMAIN clients
       THEN /\ res = Err("ClientNotFound", "")
            /\ UNCHANGED outbound
       ELSE \/ /\ res = Err("Io", "write")
               /\ UNCHANGED outbound
            \/ /\ res = Ok(NoValue)
               /\ \E other \in DOMAIN clients :
                     outbound' = [outbound EXCEPT
                        ![other] = Append(@, Framed(packet))]

\* TcpServer::write_packet; res is the Result it returns.  write_all on the
\* stream fails when the peer has gone or its buffer is full.
write_packet(client_id, packet, res) ==
    /\ UNCHANGED clients
    /\ IF client_id \notin DOMAIN clients
       THEN /\ res = Err("ClientNotFound", "")
            /\ UNCHANGED outbound
       ELSE \/ /\ res = Err("Io", "write")
               /\ UNCHANGED outbound
            \/ /\ res = Ok(NoValue)
               /\ outbound' = [outbound EXCEPT
                     ![client_id] = Append(@, Framed(packet))]

(* -------------------------------- acceptor ------------------------------ *)

\* TcpServer::start_accept_loop: the test of the while loop
AcceptorLoop ==
    /\ a_pc = "loop"
    /\ a_pc' = IF shutdown_flag THEN "done" ELSE "accept"
    /\ UNCHANGED << clients, outbound, table_vars, env_vars, worker_vars,
                    reaper_vars, client_vars,
                    supervisor_vars, codec, other_vars >>

\* TcpServer::start_accept_loop: listener.accept() returns a connection.
\* An address connects once: the address string is the session id.
Accept(id) ==
    /\ a_pc = "accept"
    /\ id \notin accepted
    /\ clients' = MapInsert(clients, id, ClientInfo(<<>>, now))
    /\ accepted' = accepted \cup {id}
    /\ a_pc' = "loop"
    /\ UNCHANGED << outbound, table_vars, shutdown_flag, nframes, now,
                    worker_vars, reaper_vars, client_vars,
                    supervisor_vars, codec, other_vars >>

\* TcpServer::start_accept_loop: accept() returns WouldBlock (sleep 100 ms)
\* or another error
AcceptWouldBlock ==
    /\ a_pc = "accept"
    /\ a_pc' = "loop"
    /\ UNCHANGED << clients, outbound, table_vars, env_vars, worker_vars,
                    reaper_vars, client_vars,
                    supervisor_vars, codec, other_vars >>

(* --------------------------------- worker ------------------------------- *)

\* an is_fatal_error that lets Protocol errors pass
is_fatal_error_lenient(error) == error.kind \in {"ClientNotFound"}

\* an is_fatal_error that also counts Io errors as fatal
is_fatal_error_strict(error) == error.kind \in {"ClientNotFound", "Protocol", "Io"}

\* VpnWorker::is_fatal_error
is_fatal_error(error) == error.kind \in {"ClientNotFound", "Protocol"}

\* where main_loop goes after one session of the pass
AfterVisit == "iter"

\* a main_loop that starts a pass whatever the shutdown flag says
WorkerLoop_blind ==
    /\ w_pc = "loop"
    /\ w_pc' = "iter"
    /\ w_ids' = get_client_ids
    /\ UNCHANGED << clients, outbound, table_vars, env_vars, w_cur, w_pkt,
                    w_res, reaper_vars, a_pc, client_vars,
                    supervisor_vars, codec, other_vars >>

\* VpnWorker::main_loop: the loop test and the snapshot of the ids
WorkerLoop ==
    /\ w_pc = "loop"
    /\ IF shutdown_flag
       THEN /\ w_pc' = "done"
            /\ UNCHANGED w_ids
       ELSE /\ w_pc' = "iter"
            /\ w_ids' = get_client_ids
    /\ UNCHANGED << clients, outbound, table_vars, env_vars, w_cur, w_pkt,
                    w_res, reaper_vars >>
    /\ UNCHANGED << a_pc, client_vars,
                    supervisor_vars, codec, other_vars >>

\* VpnWorker::main_loop: the pass is over, sleep 10 ms
WorkerSleep ==
    /\ w_pc = "iter"
    /\ w_ids = {}
    /\ w_pc' = "loop"
    /\ w_cur' = NoClient
    /\ w_res' = Pending
    /\ UNCHANGED << clients, outbound, table_vars, env_vars, w_ids, w_pkt,
                    reaper_vars >>
    /\ UNCHANGED << a_pc, client_vars,
                    supervisor_vars, codec, other_vars >>

\* VpnWorker::handle_client_packet, up to the dispatch: service_read_packet
\* under the session-table lock, then unpack
WorkerRead(client_id) ==
    /\ w_pc = "iter"
    /\ client_id \in w_ids
    /\ w_ids' = w_ids \ {client_id}
    /\ w_cur' = client_id
    /\ IF client_id \notin DOMAIN clients
       THEN /\ w_res' = Err("ClientNotFound", "")
            /\ w_pc' = "result"
            /\ w_pkt' = NoPacket
            /\ UNCHANGED clients
       ELSE \E o \in ReadOutcomes(clients[client_id]) :
              /\ clients' = [clients EXCEPT ![client_id] = o.info]
              /\ IF ~o.res.ok
                 THEN /\ w_res' = o.res
                      /\ w_pc' = "result"
                      /\ w_pkt' = NoPacket
                 ELSE LET packet == unpack(o.res.val)
                      IN  IF packet.ok
                          THEN /\ w_pkt' = packet.val
                               /\ w_res' = Pending
                               /\ w_pc' = "dispatch"
                          ELSE /\ w_pkt' = NoPacket
                               /\ w_res' = packet
                               /\ w_pc' = IF packet.kind = "Panic"
                                          THEN "panicked"
                                          ELSE "result"
    /\ UNCHANGED << outbound, table_vars, env_vars, reaper_vars >>
    /\ UNCHANGED << a_pc, client_vars,
                    supervisor_vars, codec, other_vars >>

\* VpnWorker::handle_data_packet
HandleData ==
    /\ w_pc = "dispatch"
    /\ w_pkt.packet_type = "Data"
    /\ \E res \in WriteResults :
         /\ write_packet(w_cur, pack(process_data_packet(w_pkt)), res)
         /\ w_res' = res
    /\ w_pc' = "result"
    /\ UNCHANGED << table_vars, env_vars, w_ids, w_cur, w_pkt, reaper_vars >>
    /\ UNCHANGED << a_pc, client_vars,
                    supervisor_vars, codec, other_vars >>

\* VpnWorker::handle_keepalive
HandleKeepalive ==
    /\ w_pc = "dispatch"
    /\ w_pkt.packet_type = "Keepalive"
    /\ \E res \in WriteResults :
         /\ update_client_timestamp(w_cur, res)
         /\ w_res' = res
    /\ w_pc' = "result"
    /\ UNCHANGED << outbound, table_vars, env_vars, w_ids, w_cur, w_pkt,
                    reaper_vars >>
    /\ UNCHANGED << a_pc, client_vars,
                    supervisor_vars, codec, other_vars >>

\* VpnWorker::send_config
SendConfig ==
    /\ w_pc = "dispatch"
    /\ w_pkt.packet_type = "Control"
    /\ w_pkt.control_type = "ConfigRequest"
    /\ client_configs' = MapOrInsert(client_configs, w_cur, DefaultConfig)
    /\ LET config_packet ==
               set_payload(new_control("ConfigResponse"),
                           serialize_config(client_configs'[w_cur]))
       IN  \E res \in WriteResults :
             /\ write_packet(w_cur, pack(config_packet), res)
             /\ w_res' = res
    /\ w_pc' = "result"
    /\ UNCHANGED << routes, env_vars, w_ids, w_cur, w_pkt, reaper_vars >>
    /\ UNCHANGED << a_pc, client_vars,
                    supervisor_vars, codec, other_vars >>

\* VpnWorker::update_routes
UpdateRoutes ==
    /\ w_pc = "dispatch"
    /\ w_pkt.packet_type = "Control"
    /\ w_pkt.control_type = "RouteUpdate"
    /\ LET route_updates == parse_route_updates(w_pkt.payload)
       IN  IF ~route_updates.ok
           THEN /\ w_res' = route_updates
                /\ UNCHANGED << clients, outbound, routes >>
           ELSE /\ routes' = MapInsert(routes, w_cur, route_updates.val)
                /\ \E res \in WriteResults :
                     /\ write_packet(w_cur,
                          pack(set_payload(new_control("RouteUpdate"), <<1>>)), res)
                     /\ w_res' = res
    /\ w_pc' = "result"
    /\ UNCHANGED << client_configs, env_vars, w_ids, w_cur, w_pkt, reaper_vars >>
    /\ UNCHANGED << a_pc, client_vars,
                    supervisor_vars, codec, other_vars >>

\* VpnWorker::handle_disconnect, up to the write of the acknowledgment; an
\* Err of write_packet returns from the handler
HandleDisconnect ==
    /\ w_pc = "dispatch"
    /\ w_pkt.packet_type = "Control"
    /\ w_pkt.control_type = "Disconnect"
    /\ \E res \in WriteResults :
         /\ write_packet(w_cur, pack(new_control("Disconnect")), res)
         /\ IF res.ok
            THEN /\ w_pc' = "disconnect"
                 /\ w_res' = Pending
            ELSE /\ w_pc' = "result"
                 /\ w_res' = res
    /\ UNCHANGED << table_vars, env_vars, w_ids, w_cur, w_pkt, reaper_vars >>
    /\ UNCHANGED << a_pc, client_vars,
                    supervisor_vars, codec, other_vars >>

\* VpnWorker::handle_disconnect, after the acknowledgment: remove_client and
\* the purge of the route and config entries
HandleDisconnectRemove ==
    /\ w_pc = "disconnect"
    /\ remove_client(w_cur)
    /\ routes' = MapRemove(routes, w_cur)
    /\ client_configs' = MapRemove(client_configs, w_cur)
    /\ w_res' = Ok(NoValue)
    /\ w_pc' = "result"
    /\ UNCHANGED << outbound, env_vars, w_ids, w_cur, w_pkt, reaper_vars >>
    /\ UNCHANGED << a_pc, client_vars,
                    supervisor_vars, codec, other_vars >>

\* VpnWorker::handle_client_packet: the arm `_` of the control-type match
HandleUnknownControl ==
    /\ w_pc = "dispatch"
    /\ w_pkt.packet_type = "Control"
    /\ w_pkt.control_type \notin {"ConfigRequest", "RouteUpdate", "Disconnect"}
    /\ w_res' = Err("Protocol", "Unknown control type")
    /\ w_pc' = "result"
    /\ UNCHANGED << clients, outbound, table_vars, env_vars, w_ids, w_cur,
                    w_pkt, reaper_vars >>
    /\ UNCHANGED << a_pc, client_vars,
                    supervisor_vars, codec, other_vars >>

\* VpnWorker::main_loop: the match on the Result of handle_client_packet
WorkerResult ==
    /\ w_pc = "result"
    /\ IF w_res.ok
       THEN UNCHANGED clients
       ELSE IF w_res.kind = "ClientNotFound"
            THEN remove_client(w_cur)
            ELSE IF is_fatal_error(w_res)
                 THEN remove_client(w_cur)
                 ELSE UNCHANGED clients
    /\ w_pc' = AfterVisit
    /\ w_pkt' = NoPacket
    /\ UNCHANGED << outbound, table_vars, env_vars, w_ids, w_cur, w_res,
                    reaper_vars >>
    /\ UNCHANGED << a_pc, client_vars,
                    supervisor_vars, codec, other_vars >>

(* --------------------------------- reaper ------------------------------- *)

\* VpnService::check_client_keepalive: get_stale_clients
ReaperCollect ==
    /\ r_pc = "sleep"
    /\ r_stale' = get_stale_clients
    /\ r_collected' = r_stale'
    /\ r_pc' = "remove"
    /\ UNCHANGED << clients, outbound, table_vars, env_vars, worker_vars >>
    /\ UNCHANGED << a_pc, client_vars,
                    supervisor_vars, codec, other_vars >>

\* VpnService::check_client_keepalive: one remove_client of the for loop
ReaperRemove(client_id) ==
    /\ r_pc = "remove"
    /\ client_id \in r_stale
    /\ remove_client(client_id)
    /\ r_stale' = r_stale \ {client_id}
    /\ UNCHANGED << outbound, table_vars, env_vars, worker_vars, r_pc,
                    r_collected >>
    /\ UNCHANGED << a_pc, client_vars,
                    supervisor_vars, codec, other_vars >>

\* VpnService::start: the tick is over, sleep keepalive_interval
ReaperSleep ==
    /\ r_pc = "remove"
    /\ r_stale = {}
    /\ r_pc' = "sleep"
    /\ UNCHANGED << clients, outbound, table_vars, env_vars, worker_vars,
                    r_stale, r_collected >>
    /\ UNCHANGED << a_pc, client_vars,
                    supervisor_vars, codec, other_vars >>

(* ------------------------------ environment ----------------------------- *)

\* a connected client writes one frame to its stream
ClientSend(s, frame) ==
    /\ s \in DOMAIN clients
    /\ nframes < MaxFrames
    /\ nframes' = nframes + 1
    /\ clients' = [clients EXCEPT ![s].stream = Append(@, frame)]
    /\ UNCHANGED << outbound, table_vars, shutdown_flag, accepted, now,
                    worker_vars, reaper_vars >>
    /\ UNCHANGED << a_pc, client_vars,
                    supervisor_vars, codec, other_vars >>

\* time passes.  The clock counts whole seconds; the visit of the worker to
\* one session (a read, a parse, at most one write) takes less than that.
Tick(t) ==
    /\ t > now
    /\ w_pc \in {"loop", "iter", "done", "panicked"}
    /\ now' = t
    /\ UNCHANGED << clients, outbound, table_vars, shutdown_flag, accepted,
                    nframes, worker_vars, reaper_vars >>
    /\ UNCHANGED << a_pc, client_vars,
                    supervisor_vars, codec, other_vars >>

\* TcpServer::server_shutdown: shutdown_flag.store(true)
SetShutdown ==
    /\ ~shutdown_flag
    /\ shutdown_flag' = TRUE
    /\ UNCHANGED << clients, outbound, table_vars, accepted, nframes, now,
                    worker_vars, reaper_vars >>
    /\ UNCHANGED << a_pc, client_vars,
                    supervisor_vars, codec, other_vars >>

Next ==
    \/ AcceptorLoop
    \/ \E id \in ClientIds : Accept(id)
    \/ AcceptWouldBlock
    \/ WorkerLoop
    \/ WorkerSleep
    \/ \E id \in ClientIds : WorkerRead(id)
    \/ HandleData
    \/ HandleKeepalive
    \/ SendConfig
    \/ UpdateRoutes
    \/ HandleDisconnect
    \/ HandleDisconnectRemove
    \/ HandleUnknownControl
    \/ WorkerResult
    \/ ReaperCollect
    \/ \E id \in ClientIds : ReaperRemove(id)
    \/ ReaperSleep
    \/ \E s \in ClientIds : \E frame \in ClientFrames(s) : ClientSend(s, frame)
    \/ \E t \in Instants : Tick(t)
    \/ SetShutdown

Spec == Init /\ [][Next]_vars

\* the steps of the worker thread
WorkerStep ==
    \/ WorkerLoop
    \/ WorkerSleep
    \/ \E id \in ClientIds : WorkerRead(id)
    \/ HandleData
    \/ HandleKeepalive
    \/ SendConfig
    \/ UpdateRoutes
    \/ HandleDisconnect
    \/ HandleDisconnectRemove
    \/ HandleUnknownControl
    \/ WorkerResult

\* the steps of the acceptor thread
AcceptorStep ==
    \/ AcceptorLoop
    \/ \E id \in ClientIds : Accept(id)
    \/ AcceptWouldBlock

\* the server with clients that put at most MaxShutdownFrames on the wire
ShutdownNext ==
    \/ AcceptorLoop
    \/ \E id \in ClientIds : Accept(id)
    \/ AcceptWouldBlock
    \/ WorkerLoop
    \/ WorkerSleep
    \/ \E id \in ClientIds : WorkerRead(id)
    \/ HandleData
    \/ HandleKeepalive
    \/ SendConfig
    \/ UpdateRoutes
    \/ HandleDisconnect
    \/ HandleDisconnectRemove
    \/ HandleUnknownControl
    \/ WorkerResult
    \/ ReaperCollect
    \/ \E id \in ClientIds : ReaperRemove(id)
    \/ ReaperSleep
    \/ \E s \in ClientIds : \E frame \in ClientFrames(s) :
          nframes < MaxShutdownFrames /\ ClientSend(s, frame)
    \/ \E t \in Instants : Tick(t)
    \/ SetShutdown

\* the acceptor and the worker are scheduled, and none of their steps
\* blocks: the listener and the streams are non-blocking
ShutdownSpec ==
    /\ Init
    /\ [][ShutdownNext]_vars
    /\ WF_vars(WorkerStep)
    /\ WF_vars(AcceptorStep)

(* ----------------------- the listener's lifecycle ---------------------- *)

\* one entry of the log of calls on the TcpServer
Call(op, res) == [op |-> op, res |-> res]

\* the state after TcpServer::new: no accept loop yet, no join handle
ListenerInit ==
    /\ InitBase
    /\ a_pc = "unspawned"
    /\ listener_thread = None
    /\ codec = NoCodec

\* TcpServer::start_accept_loop: spawn the acceptor, keep its join handle
start_accept_loop ==
    /\ ss_pc = "idle"
    /\ a_pc = "unspawned"
    /\ Len(ss_log) < MaxServerCalls
    /\ a_pc' = "loop"
    /\ listener_thread' = "Some"
    /\ ss_log' = Append(ss_log, Call("start_accept_loop", Ok(NoValue)))
    /\ UNCHANGED << clients, outbound, table_vars, env_vars, worker_vars,
                    reaper_vars, client_vars, supervisor_vars, codec, c_rd,
                    ss_pc, lock_vars >>

\* TcpServer::server_shutdown: shutdown_flag.store(true)
server_shutdown_store ==
    /\ ss_pc = "idle"
    /\ Len(ss_log) < MaxServerCalls
    /\ shutdown_flag' = TRUE
    /\ ss_pc' = "take"
    /\ UNCHANGED << clients, outbound, table_vars, accepted, nframes, now,
                    a_pc, worker_vars, reaper_vars, client_vars,
                    supervisor_vars, codec, c_rd, listener_thread, ss_log,
                    lock_vars >>

\* a server_shutdown that reads the join handle and leaves it in place
server_shutdown_take_peek ==
    /\ ss_pc = "take"
    /\ IF listener_thread = None
       THEN /\ ss_pc' = "idle"
            /\ ss_log' = Append(ss_log,
                   Call("server_shutdown",
                        Err("GenericError",
                            "Shutdown failed to find listener thread")))
       ELSE /\ ss_pc' = "join"
            /\ UNCHANGED ss_log
    /\ UNCHANGED << server_vars, client_vars, supervisor_vars, codec, c_rd,
                    listener_thread, lock_vars >>

\* TcpServer::server_shutdown: listener_thread.take().ok_or(GenericError)
server_shutdown_take ==
    /\ ss_pc = "take"
    /\ listener_thread' = None
    /\ IF listener_thread = None
       THEN /\ ss_pc' = "idle"
            /\ ss_log' = Append(ss_log,
                   Call("server_shutdown",
                        Err("GenericError",
                            "Shutdown failed to find listener thread")))
       ELSE /\ ss_pc' = "join"
            /\ UNCHANGED ss_log
    /\ UNCHANGED << server_vars, client_vars, supervisor_vars, codec, c_rd,
                    lock_vars >>

\* TcpServer::server_shutdown: handle.join() returns when the acceptor has
\* left its loop
server_shutdown_join ==
    /\ ss_pc = "join"
    /\ a_pc = "done"
    /\ ss_pc' = "idle"
    /\ ss_log' = Append(ss_log, Call("server_shutdown", Ok(NoValue)))
    /\ UNCHANGED << server_vars, client_vars, supervisor_vars, codec, c_rd,
                    listener_thread, lock_vars >>

\* a TcpServer on which start_accept_loop and server_shutdown are called in
\* any order, while clients connect and time passes
ListenerNext ==
    \/ start_accept_loop
    \/ AcceptorLoop
    \/ \E id \in ClientIds : Accept(id)
    \/ AcceptWouldBlock
    \/ server_shutdown_store
    \/ server_shutdown_take
    \/ server_shutdown_join
    \/ \E t \in Instants : Tick(t)

ListenerSpec == ListenerInit /\ [][ListenerNext]_vars

(* ------------------------------ the locks ------------------------------ *)

\* the steps of a handler that matter to the mutexes: lock() of a mutex, the
\* drop of its guard, an operation on the session table and its streams, a
\* call of the protocol handler
Acq(l) == [op |-> "acq", on |-> l]

Rel(l) == [op |-> "rel", on |-> l]

Io(kind) == [op |-> "io", on |-> kind]

Use(fn) == [op |-> "call", on |-> fn]

\* the handler goes one way or another: on what the read returned, on what
\* unpack returned and the packet's type, on the Result of the visit
Br(at) == [op |-> "branch", on |-> at]

\* a thread that panicked
Dead == [op |-> "dead", on |-> ""]

\* a service_read_packet that works on the stream without the table's lock
OnTable_unlocked(kind) ==
    IF kind = "read"
    THEN << Acq("server"), Io(kind), Rel("server") >>
    ELSE << Acq("server"), Acq("clients"), Io(kind), Rel("clients"),
            Rel("server") >>

\* VpnWorker: self.server.lock().expect(..).<method>(..): the guard of the
\* server handle lives to the end of the statement, the method of TcpServer
\* locks the session table for its body
OnTable(kind) ==
    << Acq("server"), Acq("clients"), Io(kind), Rel("clients"), Rel("server") >>

\* the reaper and the acceptor: a method of their own TcpServer, or the
\* table itself
Direct(kind) == << Acq("clients"), Io(kind), Rel("clients") >>

\* VpnWorker: self.protocol_handler.lock().expect(..).pack / unpack
WithHandler(fn) ==
    << Acq("protocol_handler"), Use(fn), Rel("protocol_handler") >>

\* VpnWorker::handle_data_packet
handle_data_packet == WithHandler("pack") \o OnTable("write")

\* VpnWorker::handle_keepalive
handle_keepalive == OnTable("timestamp")

\* VpnWorker::send_config
send_config ==
    << Acq("client_configs"), Rel("client_configs") >>
       \o WithHandler("pack") \o OnTable("write")

\* VpnWorker::update_routes
update_routes ==
    << Acq("routes") >> \o WithHandler("pack") \o OnTable("write")
       \o << Rel("routes") >>

\* a handle_disconnect that keeps one guard of the server handle from the
\* write to the end
handle_disconnect_one_guard ==
    WithHandler("pack")
       \o << Acq("server"), Acq("clients"), Io("write"), Rel("clients"),
             Acq("clients"), Io("remove"), Rel("clients"),
             Acq("routes"), Acq("client_configs"),
             Rel("client_configs"), Rel("routes"), Rel("server") >>

\* VpnWorker::handle_disconnect
handle_disconnect ==
    WithHandler("pack") \o OnTable("write") \o OnTable("remove")
       \o << Acq("routes"), Acq("client_configs"),
             Rel("client_configs"), Rel("routes") >>

\* VpnWorker::main_loop: the snapshot of the ids, or the visit to a session,
\* which begins with handle_client_packet's read
WorkerScripts == { OnTable("ids"), OnTable("read") \o << Br("read") >> }

\* VpnWorker::handle_client_packet after the read (unpack, or `?` returns
\* the error) and after unpack (a handler by packet type, or the error), and
\* main_loop on the Result (nothing, or remove_client on a fatal error)
Branches(at) ==
    CASE at = "read" ->
           { WithHandler("unpack") \o << Br("unpack") >>, << Br("result") >> }
      [] at = "unpack" ->
           { handler \o << Br("result") >> :
               handler \in { handle_data_packet, handle_keepalive, send_config,
                             update_routes, handle_disconnect, <<>> } }
      [] OTHER -> { <<>>, OnTable("remove") }

\* what each thread runs
Scripts(t) ==
    CASE t = "reaper" -> { Direct("stale"), Direct("remove") }
      [] t = "acceptor" -> { Direct("insert") }
      [] OTHER -> WorkerScripts

\* the guards thread t holds
Held(t) == { l \in DOMAIN locks : locks[l] = t }

\* the thread that holds the guard of mutex l
Holder(l) == IF l \in DOMAIN locks THEN locks[l] ELSE NoThread

\* the steps thread t has left
Rest(t) == IF t \in DOMAIN t_todo THEN t_todo[t] ELSE <<>>

\* thread t goes on with the steps rest
Continue(t, rest) ==
    t_todo' = IF rest = <<>> THEN MapRemove(t_todo, t)
              ELSE MapInsert(t_todo, t, rest)

\* the next step of thread t
Todo(t) == IF Rest(t) = <<>> THEN Dead ELSE Head(Rest(t))

\* thread t panics: unwinding drops its guards, which poisons their mutexes
Panics(t) ==
    /\ locks' = [l \in DOMAIN locks \ Held(t) |-> locks[l]]
    /\ poisoned' = poisoned \cup Held(t)
    /\ Continue(t, << Dead >>)

\* thread t starts a pass, a visit to a session, or a round of its loop
Begin(t, script) ==
    /\ Rest(t) = <<>>
    /\ script \in Scripts(t)
    /\ Continue(t, script)
    /\ UNCHANGED << locks, poisoned >>
    /\ UNCHANGED << server_vars, client_vars, supervisor_vars, codec, c_rd,
                    listener_vars >>

\* Mutex::lock returns: the mutex is free.  On a poisoned mutex it returns
\* Err, and the unwrap or expect of the caller panics
Acquire(t) ==
    /\ Todo(t).op = "acq"
    /\ Holder(Todo(t).on) = NoThread
    /\ IF Todo(t).on \in poisoned
       THEN Panics(t)
       ELSE /\ locks' = MapInsert(locks, Todo(t).on, t)
            /\ Continue(t, Tail(Rest(t)))
            /\ UNCHANGED poisoned
    /\ UNCHANGED << server_vars, client_vars, supervisor_vars, codec, c_rd,
                    listener_vars >>

\* the guard is dropped
Release(t) ==
    /\ Todo(t).op = "rel"
    /\ locks' = MapRemove(locks, Todo(t).on)
    /\ Continue(t, Tail(Rest(t)))
    /\ UNCHANGED poisoned
    /\ UNCHANGED << server_vars, client_vars, supervisor_vars, codec, c_rd,
                    listener_vars >>

\* the operation on the session table or on a stream of it
StreamOp(t) ==
    /\ Todo(t).op = "io"
    /\ Continue(t, Tail(Rest(t)))
    /\ UNCHANGED << locks, poisoned >>
    /\ UNCHANGED << server_vars, client_vars, supervisor_vars, codec, c_rd,
                    listener_vars >>

\* pack or unpack returns; unpack can panic on a short plaintext
HandlerCall(t) ==
    /\ Todo(t).op = "call"
    /\ \/ /\ Continue(t, Tail(Rest(t)))
          /\ UNCHANGED << locks, poisoned >>
       \/ /\ Todo(t).on = "unpack"
          /\ Panics(t)
    /\ UNCHANGED << server_vars, client_vars, supervisor_vars, codec, c_rd,
                    listener_vars >>

\* the handler takes one of its ways
Branch(t, script) ==
    /\ Todo(t).op = "branch"
    /\ script \in Branches(Todo(t).on)
    /\ Continue(t, script)
    /\ UNCHANGED << locks, poisoned >>
    /\ UNCHANGED << server_vars, client_vars, supervisor_vars, codec, c_rd,
                    listener_vars >>

\* the steps of thread t once it has begun
Proceed(t) ==
    \/ Acquire(t)
    \/ Release(t)
    \/ StreamOp(t)
    \/ HandlerCall(t)
    \/ \E at \in {"read", "unpack", "result"} :
          \E script \in Branches(at) : Branch(t, script)

\* the steps of thread t
ThreadStep(t) ==
    \/ \E script \in Scripts(t) : Begin(t, script)
    \/ Proceed(t)

\* two workers, the reaper and the acceptor, each at its own pace
LockNext == \E t \in Threads : ThreadStep(t)

LockSpec == Init /\ [][LockNext]_vars

\* every thread is scheduled, and a thread that waits in lock() gets the
\* mutex if the mutex is free again and again
LockFairSpec ==
    /\ Init
    /\ [][LockNext]_vars
    /\ \A t \in Threads : SF_vars(Proceed(t))

(* ------------------------- the worker's polling ------------------------ *)

\* what the clients of the polling runs send: Data frames, and a frame whose
\* plaintext is 9 bytes long
PollFrames(s) == { DataFrame(s), ShortPlainFrame }

\* the acceptor, the worker and clients that send PollFrames, with the
\* shutdown flag set at some time or never
PollNext ==
    \/ AcceptorLoop
    \/ \E id \in ClientIds : Accept(id)
    \/ AcceptWouldBlock
    \/ WorkerLoop
    \/ WorkerSleep
    \/ \E id \in ClientIds : WorkerRead(id)
    \/ HandleData
    \/ WorkerResult
    \/ \E s \in ClientIds : \E frame \in PollFrames(s) : ClientSend(s, frame)
    \/ SetShutdown

\* the acceptor and the worker are scheduled, and none of their steps
\* blocks: the listener and the streams are non-blocking
PollSpec ==
    /\ Init
    /\ [][PollNext]_vars
    /\ WF_vars(WorkerStep)
    /\ WF_vars(AcceptorStep)

(* ---------------------------- the supervisor --------------------------- *)

(* VpnService::shutdown is called by main and by the examples.  Its stages  *)
(* are those of the design: set the flag, join the worker, join the reaper, *)
(* join the acceptor and close the listener (TcpServer::server_shutdown),   *)
(* drop the session table.  A join returns once the joined thread has       *)
(* ended, with an error if it ended in a panic.                             *)

JoinError == Err("GenericError", "Join error")

\* the Result so far, after a stage that returned res
FirstFailure(res) == IF s_res.ok THEN res ELSE s_res

\* TcpServer::server_shutdown: store the flag, take the handle of the
\* acceptor and join it
server_shutdown(res) ==
    /\ shutdown_flag' = TRUE
    /\ IF listener_thread = None
       THEN /\ res = Err("GenericError",
                         "Shutdown failed to find listener thread")
            /\ UNCHANGED listener_thread
       ELSE /\ a_pc = "done"
            /\ listener_thread' = None
            /\ res = Ok(NoValue)

\* VpnService::shutdown, one stage per step
shutdown ==
    /\ CASE s_pc = "running" ->
              /\ shutdown_flag' = TRUE
              /\ s_pc' = "join_worker"
              /\ UNCHANGED << clients, s_res, listener_thread >>
         [] s_pc = "join_worker" ->
              /\ w_pc \in {"done", "panicked"}
              /\ s_res' = FirstFailure(IF w_pc = "panicked"
                                       THEN JoinError ELSE Ok(NoValue))
              /\ s_pc' = "join_reaper"
              /\ UNCHANGED << clients, shutdown_flag, listener_thread >>
         [] s_pc = "join_reaper" ->
              /\ r_pc \in {"done", "panicked"}
              /\ s_res' = FirstFailure(IF r_pc = "panicked"
                                       THEN JoinError ELSE Ok(NoValue))
              /\ s_pc' = "join_acceptor"
              /\ UNCHANGED << clients, shutdown_flag, listener_thread >>
         [] s_pc = "join_acceptor" ->
              /\ \E res \in {Ok(NoValue), JoinError} :
                    /\ server_shutdown(res)
                    /\ s_res' = FirstFailure(res)
              /\ s_pc' = "drop_table"
              /\ UNCHANGED clients
         [] s_pc = "drop_table" ->
              /\ clients' = EmptyMap
              /\ s_pc' = "returned"
              /\ UNCHANGED << shutdown_flag, s_res, listener_thread >>
         [] OTHER -> FALSE
    /\ UNCHANGED << outbound, routes, client_configs, accepted, nframes, now,
                    a_pc, worker_vars, reaper_vars, client_vars, codec,
                    c_rd, ss_pc, ss_log, lock_vars >>

\* the server of ShutdownNext, shut down by its supervisor
ServiceNext ==
    \/ AcceptorLoop
    \/ \E id \in ClientIds : Accept(id)
    \/ AcceptWouldBlock
    \/ WorkerLoop
    \/ WorkerSleep
    \/ \E id \in ClientIds : WorkerRead(id)
    \/ HandleData
    \/ HandleKeepalive
    \/ SendConfig
    \/ UpdateRoutes
    \/ HandleDisconnect
    \/ HandleDisconnectRemove
    \/ HandleUnknownControl
    \/ WorkerResult
    \/ ReaperCollect
    \/ \E id \in ClientIds : ReaperRemove(id)
    \/ ReaperSleep
    \/ \E s \in ClientIds : \E frame \in ClientFrames(s) :
          nframes < MaxShutdownFrames /\ ClientSend(s, frame)
    \/ \E t \in Instants : Tick(t)
    \/ shutdown

\* every thread is scheduled: the acceptor, the worker, the reaper's tick
\* and the thread that called shutdown
ServiceSpec ==
    /\ Init
    /\ [][ServiceNext]_vars
    /\ WF_vars(WorkerStep)
    /\ WF_vars(AcceptorStep)
    /\ WF_vars(ReaperCollect \/ ReaperSleep)
    /\ WF_vars(shutdown)

(* ------------------------------- the client ---------------------------- *)

(* One VpnClient: the thread that owns the value (the caller) and the        *)
(* heartbeat thread start_keepalive spawns.  Both write to the same socket:  *)
(* the heartbeat holds a try_clone of the stream.  The server end is the      *)
(* environment: it takes bytes off the stream and answers with any frame.    *)

Some == "Some"

\* a piece of the byte stream: what one write_all call put on the socket
Chunk(writer, part, frame) == [writer |-> writer, part |-> part, frame |-> frame]

\* the packets the caller hands to send_packet
\* vec![b'L'; 64 * 1024], the payload of the packet "Large" of
\* examples/packet_size.rs: one run of LargeLen bytes
LargePayload == << 0 - LargeLen >>

SendPackets ==
    { new_data(IpA, IpB, PayloadOf(1)), new_keepalive,
      new_data(IpA, IpB, LargePayload) }

ConfigResponseFrame(payload) ==
    Framed(pack(set_payload(new_control("ConfigResponse"), payload)))

\* what the client finds on its stream when it reads: a frame of the server
\* (well-formed or not), or nothing before the read timeout
ServerFrames ==
    { ConfigResponseFrame(serialize_config(DefaultConfig)),
      ConfigResponseFrame(<<1>>), ControlFrame("Disconnect"), DataFrame(1),
      KeepaliveFrame, BadTypeFrame, ShortPlainFrame, BadTagFrame(1),
      ShortBodyFrame, OversizeFrame, PartialFrame(1), NoFrame }

\* TcpClient::client_read_packet, on what the stream holds
client_read_packet(frame) ==
    IF frame.arrived = "none"
    THEN Err("Io", "read_exact")
    ELSE IF frame.len > ClientMaxPacketLen
         THEN Err("Protocol", "Packet too large")
         ELSE IF frame.arrived = "partial"
              THEN Err("Io", "read_exact")
              ELSE Ok(frame.body)

\* VpnConfig::from_bytes
from_bytes(bytes) ==
    IF Len(bytes) < ConfigLen
    THEN Err("Protocol", "Config data too short")
    ELSE Ok(VpnConfig(U32FromBe(SubSeq(bytes, 1, 4)),
                      U32FromBe(SubSeq(bytes, 5, 8)),
                      U32FromBe(SubSeq(bytes, 9, 12))))

\* VpnClient::handshake from the read on: Ok(config to apply), or the error
\* handshake returns (kind "Panic": unpack panicked)
handshake_response(read) ==
    IF ~read.ok
    THEN read
    ELSE LET response == unpack(read.val)
         IN  IF ~response.ok
             THEN response
             ELSE IF \/ response.val.packet_type # "Control"
                     \/ response.val.control_type # "ConfigResponse"
                  THEN Err("Protocol", "Invalid handshake response")
                  ELSE from_bytes(response.val.payload)

\* VpnClient::send_packet from the read on
send_response(read) == IF ~read.ok THEN read ELSE unpack(read.val)

\* the method returns res to the caller.  An Err of new drops the value that
\* was being built; drop discards the Result of its disconnect and has no
\* caller to return to; a panic unwinds the caller, which drops the client.
Return(res) ==
    /\ c_res' = IF c_op = "drop" THEN c_res ELSE res
    /\ c_frame' = NoFrame
    /\ c_pc' = IF c_op = "drop" \/ (c_op = "handshake" /\ ~res.ok)
               THEN "closed"
               ELSE IF res.kind = "Panic" THEN "unwinding" ELSE "idle"

\* VpnClient::new: connect, build the value, enter handshake up to pack
ClientNew ==
    /\ c_pc = "start"
    /\ c_op' = "handshake"
    /\ c_frame' = ControlFrame("ConfigRequest")
    /\ c_pc' = "write_len"
    /\ UNCHANGED << connected, client_thread, client_shutdown, config, c_res,
                    c_calls, c_first, hb_pc, c_wire, server_vars,
                    supervisor_vars, codec, other_vars >>

\* TcpClient::write_packet on the caller's thread: write_all(&len_bytes).
\* A write fails when the peer has gone, or after the 45 s write timeout.
CallerWriteLen ==
    /\ c_pc = "write_len"
    /\ \/ /\ Len(c_wire) < MaxWire
          /\ c_wire' = Append(c_wire, Chunk("caller", "len", c_frame))
          /\ c_pc' = "write_body"
          /\ UNCHANGED << c_res, c_frame >>
       \/ /\ Return(Err("Io", "write"))
          /\ UNCHANGED c_wire
    /\ UNCHANGED << connected, client_thread, client_shutdown, config, c_op,
                    c_calls, c_first, hb_pc, server_vars,
                    supervisor_vars, codec, other_vars >>

\* TcpClient::write_packet on the caller's thread: write_all(packet) and
\* flush, then what the method does up to its next blocking call: handshake
\* and send_packet go on to read; disconnect clears connected and takes the
\* join handle
CallerWriteBody ==
    /\ c_pc = "write_body"
    /\ \/ /\ Len(c_wire) < MaxWire
          /\ c_wire' = Append(c_wire, Chunk("caller", "body", c_frame))
          /\ IF c_op \in {"handshake", "send_packet"}
             THEN /\ c_pc' = "read"
                  /\ UNCHANGED << connected, client_thread, c_res, c_frame >>
             ELSE /\ connected' = FALSE
                  /\ IF client_thread = Some
                     THEN /\ client_thread' = None
                          /\ c_pc' = "join"
                          /\ UNCHANGED << c_res, c_frame >>
                     ELSE /\ Return(Ok(NoValue))
                          /\ UNCHANGED client_thread
       \/ /\ Return(Err("Io", "write"))
          /\ UNCHANGED << c_wire, connected, client_thread >>
    /\ UNCHANGED << client_shutdown, config, c_op, c_calls, c_first, hb_pc,
                    server_vars,
                    supervisor_vars, codec, other_vars >>

\* TcpClient::client_read_packet on the caller's thread (it returns within
\* the 45 s read timeout), then the rest of the method: handshake checks the
\* response, applies the config, sets connected and spawns the heartbeat;
\* send_packet unpacks and returns
CallerRead(frame) ==
    /\ c_pc = "read"
    /\ LET read == client_read_packet(frame)
       IN  IF c_op = "handshake"
           THEN /\ c_first' = read
                /\ LET applied == handshake_response(read)
                   IN  IF applied.ok
                       THEN /\ config' = applied.val
                            /\ connected' = TRUE
                            /\ client_thread' = Some
                            /\ hb_pc' = "test"
                            /\ Return(Ok(NoValue))
                       ELSE /\ Return(applied)
                            /\ UNCHANGED << config, connected, client_thread,
                                            hb_pc >>
           ELSE /\ Return(send_response(read))
                /\ UNCHANGED << c_first, config, connected, client_thread,
                                hb_pc >>
    /\ UNCHANGED << client_shutdown, c_op, c_calls, c_wire, server_vars,
                    supervisor_vars, codec, listener_vars,
                    lock_vars >>

\* VpnClient::disconnect: handle.join() returns once the heartbeat thread
\* has ended
Join ==
    /\ c_pc = "join"
    /\ hb_pc = "ended"
    /\ Return(Ok(NoValue))
    /\ UNCHANGED << connected, client_thread, client_shutdown, config, c_op,
                    c_calls, c_first, hb_pc, c_wire, server_vars,
                    supervisor_vars, codec, other_vars >>

\* a send_packet without the test of connected
send_packet_unchecked(packet) ==
    /\ c_pc = "idle"
    /\ Len(c_calls) < MaxCalls
    /\ c_calls' = Append(c_calls, "send_packet")
    /\ c_op' = "send_packet"
    /\ c_frame' = Framed(pack(packet))
    /\ c_pc' = "write_len"
    /\ UNCHANGED << c_res, connected, client_thread, client_shutdown, config,
                    c_first, hb_pc, c_wire, server_vars,
                    supervisor_vars, codec, other_vars >>

\* VpnClient::send_packet, up to the first write
send_packet(packet) ==
    /\ c_pc = "idle"
    /\ Len(c_calls) < MaxCalls
    /\ c_calls' = Append(c_calls, "send_packet")
    /\ c_op' = "send_packet"
    /\ IF ~connected
       THEN /\ c_res' = Err("Protocol", "Not connected")
            /\ UNCHANGED << c_pc, c_frame >>
       ELSE /\ c_frame' = Framed(pack(packet))
            /\ c_pc' = "write_len"
            /\ UNCHANGED c_res
    /\ UNCHANGED << connected, client_thread, client_shutdown, config,
                    c_first, hb_pc, c_wire, server_vars,
                    supervisor_vars, codec, other_vars >>

\* a disconnect without the test of connected
disconnect_unchecked ==
    /\ c_pc = "idle"
    /\ Len(c_calls) < MaxCalls
    /\ c_calls' = Append(c_calls, "disconnect")
    /\ c_op' = "disconnect"
    /\ c_frame' = ControlFrame("Disconnect")
    /\ c_pc' = "write_len"
    /\ UNCHANGED << c_res, connected, client_thread, client_shutdown, config,
                    c_first, hb_pc, c_wire, server_vars,
                    supervisor_vars, codec, other_vars >>

\* VpnClient::disconnect, up to the first write
disconnect ==
    /\ c_pc = "idle"
    /\ Len(c_calls) < MaxCalls
    /\ c_calls' = Append(c_calls, "disconnect")
    /\ c_op' = "disconnect"
    /\ IF connected
       THEN /\ c_frame' = ControlFrame("Disconnect")
            /\ c_pc' = "write_len"
            /\ UNCHANGED c_res
       ELSE /\ c_res' = Ok(NoValue)
            /\ UNCHANGED << c_pc, c_frame >>
    /\ UNCHANGED << connected, client_thread, client_shutdown, config,
                    c_first, hb_pc, c_wire, server_vars,
                    supervisor_vars, codec, other_vars >>

\* Drop for VpnClient: `let _ = self.disconnect()`, when the caller lets go
\* of the value or unwinds from a panic
drop ==
    /\ c_pc \in {"idle", "unwinding"}
    /\ c_op' = "drop"
    /\ IF connected
       THEN /\ c_frame' = ControlFrame("Disconnect")
            /\ c_pc' = "write_len"
       ELSE /\ c_pc' = "closed"
            /\ UNCHANGED c_frame
    /\ UNCHANGED << c_res, c_calls, connected, client_thread, client_shutdown,
                    config, c_first, hb_pc, c_wire, server_vars,
                    supervisor_vars, codec, other_vars >>

(* ----------------------------- heartbeat thread ------------------------- *)

\* a heartbeat loop that sleeps and tries again after a failed write
hb_retry_after_write_error == "sleep"

\* where the heartbeat loop goes when write_packet returned Err: break
hb_after_write_error == "ended"

\* start_keepalive, the closure: the test of the while loop
HbTest ==
    /\ hb_pc = "test"
    /\ hb_pc' = IF client_shutdown THEN "ended" ELSE "write_len"
    /\ UNCHANGED << connected, client_thread, client_shutdown, config, c_op,
                    c_pc, c_frame, c_res, c_calls, c_first, c_wire,
                    server_vars,
                    supervisor_vars, codec, other_vars >>

\* start_keepalive, the closure: pack a Keepalive, write_all(&len_bytes)
HbWriteLen ==
    /\ hb_pc = "write_len"
    /\ \/ /\ Len(c_wire) < MaxWire
          /\ c_wire' = Append(c_wire, Chunk("heartbeat", "len",
                                            Framed(pack(new_keepalive))))
          /\ hb_pc' = "write_body"
       \/ /\ hb_pc' = hb_after_write_error
          /\ UNCHANGED c_wire
    /\ UNCHANGED << connected, client_thread, client_shutdown, config, c_op,
                    c_pc, c_frame, c_res, c_calls, c_first, server_vars,
                    supervisor_vars, codec, other_vars >>

\* start_keepalive, the closure: write_all(packet) and flush
HbWriteBody ==
    /\ hb_pc = "write_body"
    /\ \/ /\ Len(c_wire) < MaxWire
          /\ c_wire' = Append(c_wire, Chunk("heartbeat", "body",
                                            Framed(pack(new_keepalive))))
          /\ hb_pc' = "sleep"
       \/ /\ hb_pc' = hb_after_write_error
          /\ UNCHANGED c_wire
    /\ UNCHANGED << connected, client_thread, client_shutdown, config, c_op,
                    c_pc, c_frame, c_res, c_calls, c_first, server_vars,
                    supervisor_vars, codec, other_vars >>

\* start_keepalive, the closure: thread::sleep(interval) is over
HbSleep ==
    /\ hb_pc = "sleep"
    /\ hb_pc' = "test"
    /\ UNCHANGED << connected, client_thread, client_shutdown, config, c_op,
                    c_pc, c_frame, c_res, c_calls, c_first, c_wire,
                    server_vars,
                    supervisor_vars, codec, other_vars >>

(* --------------------------- the client's peer -------------------------- *)

\* the server end reads a length prefix and the bytes that follow it
PeerRead ==
    /\ Len(c_wire) >= 2
    /\ c_wire' = SubSeq(c_wire, 3, Len(c_wire))
    /\ UNCHANGED << connected, client_thread, client_shutdown, config, c_op,
                    c_pc, c_frame, c_res, c_calls, c_first, hb_pc,
                    server_vars,
                    supervisor_vars, codec, other_vars >>

\* the steps a caller inside a method takes without being asked
CallerStep ==
    \/ CallerWriteLen
    \/ CallerWriteBody
    \/ \E frame \in ServerFrames : CallerRead(frame) /\ UNCHANGED c_rd
    \/ Join

HeartbeatStep == HbTest \/ HbWriteLen \/ HbWriteBody \/ HbSleep

ClientNext ==
    \/ ClientNew
    \/ CallerWriteLen
    \/ CallerWriteBody
    \/ \E frame \in ServerFrames : CallerRead(frame) /\ UNCHANGED c_rd
    \/ Join
    \/ \E packet \in SendPackets : send_packet(packet)
    \/ disconnect
    \/ drop
    \/ HbTest
    \/ HbWriteLen
    \/ HbWriteBody
    \/ HbSleep
    \/ PeerRead

ClientSpec == Init /\ [][ClientNext]_vars

\* the threads are scheduled, and every blocking call of theirs but join
\* returns within its timeout
ClientFairSpec ==
    /\ ClientSpec
    /\ WF_vars(CallerStep)
    /\ WF_vars(HeartbeatStep)
    /\ WF_vars(PeerRead)

(* ----------------------- one client and the server --------------------- *)

(* The client of the section above on a connection to the server: what it   *)
(* writes reaches the stream of session ClientSession, and what it reads is  *)
(* what the worker wrote to that session, in order.                          *)

\* the session the acceptor makes of the client's connection
ClientSession == 1

\* the requests the caller hands to send_packet
RequestPackets ==
    { new_data(IpA, IpB, PayloadOf(ClientSession)),
      new_control("ConfigRequest"),
      set_payload(new_control("RouteUpdate"), RoutePayloadOf(ClientSession)) }

\* what the server's read makes of two chunks of the client's stream: the
\* frame, when they are its prefix and its body; when a prefix is followed
\* by another prefix, a body of the announced length that is not a
\* ciphertext; and bytes that are no prefix at all
Received(first, second) ==
    IF first.part = "len" /\ second.part = "body" /\ first.frame = second.frame
    THEN first.frame
    ELSE IF first.part = "len"
         THEN BadTagFrame(ClientSession)
         ELSE Torn

\* the connection carries two chunks of the client to the server's socket,
\* whose buffer holds MaxFrames frames
Deliver ==
    /\ Len(c_wire) >= 2
    /\ ClientSession \in DOMAIN clients
    /\ Len(clients[ClientSession].stream) < MaxFrames
    /\ clients' = [clients EXCEPT ![ClientSession].stream =
                      Append(@, Received(c_wire[1], c_wire[2]))]
    /\ c_wire' = SubSeq(c_wire, 3, Len(c_wire))
    /\ UNCHANGED << outbound, table_vars, env_vars, a_pc, worker_vars,
                    reaper_vars, connected, client_thread, client_shutdown,
                    config, c_op, c_pc, c_frame, c_res, c_calls, c_first,
                    hb_pc, supervisor_vars, codec, other_vars >>

\* TcpClient::client_read_packet on the connection: the next frame the
\* server wrote, or, when there is none for 45 s, the read timeout
SessionRead ==
    IF c_rd < Len(outbound[ClientSession])
    THEN /\ CallerRead(outbound[ClientSession][c_rd + 1])
         /\ c_rd' = c_rd + 1
    ELSE /\ CallerRead(NoFrame)
         /\ UNCHANGED c_rd

\* the client with its heartbeat, the connection, and the acceptor and the
\* worker of the server
SessionNext ==
    \/ ClientNew
    \/ CallerWriteLen
    \/ CallerWriteBody
    \/ SessionRead
    \/ \E packet \in RequestPackets : send_packet(packet)
    \/ HbTest
    \/ HbWriteLen
    \/ HbWriteBody
    \/ HbSleep
    \/ Deliver
    \/ AcceptorLoop
    \/ Accept(ClientSession)
    \/ AcceptWouldBlock
    \/ WorkerLoop
    \/ WorkerSleep
    \/ WorkerRead(ClientSession)
    \/ HandleData
    \/ HandleKeepalive
    \/ SendConfig
    \/ UpdateRoutes
    \/ WorkerResult

SessionSpec == Init /\ [][SessionNext]_vars

(* ------------------------- the codec on its own ------------------------ *)

(* pack, unpack, encrypt and decrypt are pure: each is applied once to an    *)
(* input drawn at the start, and the result is kept next to the input.       *)

Applied(op, pos, out) ==
    /\ codec.op = "input"
    /\ codec' = [codec EXCEPT !.op = op, !.pos = pos, !.out = out]
    /\ UNCHANGED << server_vars, client_vars, supervisor_vars, other_vars >>

\* handler.unpack(&handler.pack(packet)?)
PackUnpack == Applied("pack_unpack", 0, unpack(pack(codec.in.packet)))

\* handler.unpack on a ciphertext whose plaintext is the given bytes
UnpackPlain == Applied("unpack_plain", 0, unpack(encrypt(codec.in.bytes)))

\* encryption.decrypt on the given bytes
Decrypt == Applied("decrypt", 0, decrypt_bytes(codec.in.key, codec.in.bytes))

\* encryption.decrypt(&encryption.encrypt(bytes)?)
EncryptDecrypt ==
    Applied("encrypt_decrypt", 0,
            decrypt_bytes(codec.in.key,
                          encrypt_bytes(codec.in.key, codec.in.nonce,
                                        codec.in.bytes).val))

\* encryption.decrypt on encrypt(bytes) with byte i changed by delta
TamperDecrypt(i, delta) ==
    /\ codec.op = "input"
    /\ i <= NonceLen + Len(codec.in.bytes) + TagLen
    /\ LET sealed == encrypt_bytes(codec.in.key, codec.in.nonce,
                                   codec.in.bytes).val
       IN  Applied("tamper_decrypt", i,
                   decrypt_bytes(codec.in.key,
                                 [sealed EXCEPT ![i] = (sealed[i] + delta) % 256]))

\* parse_route_updates on the given bytes
ParseRouteUpdates ==
    Applied("parse_route_updates", 0, parse_route_updates(codec.in.bytes))

\* VpnConfig::from_bytes(&serialize_config(&config)?)
ConfigRoundTrip ==
    Applied("config_round_trip", 0,
            from_bytes_be(serialize_config_be(codec.in.config)))

\* VpnConfig::from_bytes on the given bytes
ConfigFromBytes ==
    Applied("config_from_bytes", 0, from_bytes_be(codec.in.bytes))

CodecInit == InitState /\ codec \in { CodecIdle(input) : input \in CodecInputs }

CodecNext ==
    \/ PackUnpack
    \/ UnpackPlain
    \/ Decrypt
    \/ EncryptDecrypt
    \/ ParseRouteUpdates
    \/ ConfigRoundTrip
    \/ ConfigFromBytes
    \/ \E i \in 1..(NonceLen + HeaderLen + 1 + TagLen) :
          \E delta \in {1, 128, 255} : TamperDecrypt(i, delta)

CodecSpec == CodecInit /\ [][CodecNext]_vars

(* ------------------------------ properties ------------------------------ *)

\* the step of main_loop that acts on the Result of handle_client_packet
ResultStep == w_pc = "result" /\ w_pc' # "result"

\* C1: every key of the route table and of the config table is a key of the
\* session table (a removed session takes its route and config entries along).
C1_TablesWithinSessions ==
    /\ DOMAIN routes \subseteq DOMAIN clients
    /\ DOMAIN client_configs \subseteq DOMAIN clients

\* C2: whatever frames the sessions deliver, the worker loop keeps running:
\* it ends only because the shutdown flag was set.
C2_WorkerKeepsRunning == w_pc \in {"done", "panicked"} => shutdown_flag

\* the frame is the echo of request: Data, addresses swapped, same payload
IsEchoOf(frame, request) ==
    LET reply == unpack(frame.body)
    IN  /\ reply.ok
        /\ reply.val.packet_type = "Data"
        /\ reply.val.source_ip = request.dest_ip
        /\ reply.val.dest_ip = request.source_ip
        /\ reply.val.payload = request.payload

\* C3: for every Data frame the worker read from session s it writes exactly
\* one frame to s, the echo of the request, and nothing to any other session.
\* (A write the transport itself refuses, an Io error, is not counted against
\* the claim: no frame can be written then.)
C3_DataEchoedOnce ==
    [][ (w_pc = "dispatch" /\ w_pkt.packet_type = "Data" /\ w_pc' # "dispatch"
            /\ w_res'.kind # "Io")
        => /\ Len(outbound'[w_cur]) = Len(outbound[w_cur]) + 1
           /\ IsEchoOf(outbound'[w_cur][Len(outbound'[w_cur])], w_pkt)
           /\ \A s \in ClientIds \ {w_cur} : outbound'[s] = outbound[s] ]_vars

\* C4: every frame the server wrote to session s answers a frame of s: it
\* unpacks, and a Data reply carries the payload that s (and no other
\* client) sends, with the addresses of the request swapped.
C4_NoCrossTalk ==
    \A s \in ClientIds : \A i \in 1..Len(outbound[s]) :
        LET reply == unpack(outbound[s][i].body)
        IN  /\ reply.ok
            /\ reply.val.packet_type = "Data"
                   => /\ reply.val.payload = PayloadOf(s)
                      /\ reply.val.source_ip = IpB
                      /\ reply.val.dest_ip = IpA

\* C4 witness: both clients received the echo of their own Data frame
C4_Witness ==
    \A s \in ClientIds :
        \E i \in 1..Len(outbound[s]) :
            unpack(outbound[s][i].body).val.packet_type = "Data"

\* the last frame written to s is the empty Control/Disconnect acknowledgment
LastIsDisconnectAck(s) ==
    /\ outbound[s] # <<>>
    /\ LET ack == unpack(outbound[s][Len(outbound[s])].body)
       IN  /\ ack.ok
           /\ ack.val.packet_type = "Control"
           /\ ack.val.control_type = "Disconnect"
           /\ ack.val.payload = <<>>

\* C5: the handler of a Control/Disconnect frame of session s writes the
\* empty Control/Disconnect acknowledgment to s before it removes s, and once
\* it has finished s is absent from the session, route and config tables.
C5_DisconnectPurges ==
    /\ w_pc = "disconnect" => LastIsDisconnectAck(w_cur)
    /\ (w_pc = "result" /\ w_pkt.packet_type = "Control"
           /\ w_pkt.control_type = "Disconnect")
       => /\ w_cur \notin DOMAIN clients
          /\ w_cur \notin DOMAIN routes
          /\ w_cur \notin DOMAIN client_configs

\* C6: when handling s yielded ClientNotFound or a Protocol error, the
\* result step removes s from the session table and nothing else, leaves the
\* route and config tables alone and goes on with the rest of the pass.
C6_FatalRemovesSession ==
    [][ (ResultStep /\ w_res.kind \in {"ClientNotFound", "Protocol"})
        => /\ w_cur \notin DOMAIN clients'
           /\ clients' = MapRemove(clients, w_cur)
           /\ UNCHANGED << routes, client_configs, outbound, w_ids >>
           /\ w_pc' = "iter" ]_vars

\* C6 witness: s was removed for a Protocol error while another session is in
\* the table and still to be visited in this pass
C6_Witness ==
    /\ w_pc = "iter"
    /\ w_res.kind = "Protocol"
    /\ w_cur \notin DOMAIN clients
    /\ w_ids # {}
    /\ w_ids \subseteq DOMAIN clients

\* C7: a frame of s that fails decryption gets s removed from the session
\* table by the result step of the same pass.
C7_DecryptFailureRemoves ==
    [][ (ResultStep /\ w_res.kind = "Encryption")
        => w_cur \notin DOMAIN clients' ]_vars

\* C8: an Io error on the read or write for s leaves s in the session table
\* with its route and config entries; a session leaves the table only by the
\* reaper (which collected it as stale), by the result step for a fatal error
\* on it, or by the Disconnect handler.
C8_IoKeepsSession ==
    [][ /\ (ResultStep /\ w_res.kind = "Io")
            => UNCHANGED << clients, routes, client_configs >>
        /\ \A s \in DOMAIN clients :
             s \notin DOMAIN clients'
             => \/ r_pc = "remove" /\ s \in r_collected /\ s \notin r_stale'
                \/ /\ w_pc = "result" /\ w_cur = s
                   /\ w_res.kind \in {"ClientNotFound", "Protocol"}
                \/ w_pc = "disconnect" /\ w_cur = s ]_vars

\* C8 witness: the result step has passed over an Io error on s, and s is in
\* the session table and in the route table
C8_Witness ==
    /\ w_pc = "iter"
    /\ w_res.kind = "Io"
    /\ w_cur \in DOMAIN clients
    /\ w_cur \in DOMAIN routes

\* C9: the reaper removes no session whose last_seen is 90 s old or less at
\* the time of the removal.
C9_ReaperSparesFresh ==
    [][ \A s \in DOMAIN clients :
          (r_pc = "remove" /\ s \in r_stale /\ s \notin r_stale')
          => now - clients[s].last_seen > StaleTimeout ]_vars

C11_KeepaliveRefreshes ==
    [][ (w_pc = "dispatch" /\ w_pkt.packet_type = "Keepalive"
            /\ w_pc' # "dispatch")
        => /\ w_cur \in DOMAIN clients'
           /\ clients'[w_cur].last_seen = now
           /\ DOMAIN clients' = DOMAIN clients
           /\ UNCHANGED << outbound, routes, client_configs >> ]_vars

\* the frame is a Control/ConfigResponse whose payload is the 12 bytes of entry
IsConfigResponseOf(frame, entry) ==
    LET reply == unpack(frame.body)
    IN  /\ reply.ok
        /\ reply.val.packet_type = "Control"
        /\ reply.val.control_type = "ConfigResponse"
        /\ Len(reply.val.payload) = 12
        /\ U32FromBe(SubSeq(reply.val.payload, 1, 4)) = entry.mtu
        /\ U32FromBe(SubSeq(reply.val.payload, 5, 8)) = entry.keepalive_interval
        /\ U32FromBe(SubSeq(reply.val.payload, 9, 12)) = entry.reconnect_attempts

\* C12: the handler of Control/ConfigRequest of session s inserts the default
\* config (1500, 30 s, 3) for s when s has no config entry and leaves an
\* existing entry as it is, and writes exactly one Control/ConfigResponse to
\* s whose 12-byte payload encodes the entry of s.  (A write the transport
\* itself refuses, an Io error, is not counted against the claim.)
C12_ConfigReply ==
    [][ (w_pc = "dispatch" /\ w_pkt.packet_type = "Control"
            /\ w_pkt.control_type = "ConfigRequest" /\ w_pc' # "dispatch"
            /\ w_res'.kind # "Io")
        => /\ client_configs' =
                 IF w_cur \in DOMAIN client_configs
                 THEN client_configs
                 ELSE MapInsert(client_configs, w_cur, VpnConfig(1500, 30, 3))
           /\ Len(outbound'[w_cur]) = Len(outbound[w_cur]) + 1
           /\ IsConfigResponseOf(outbound'[w_cur][Len(outbound'[w_cur])],
                                 client_configs'[w_cur])
           /\ \A s \in ClientIds \ {w_cur} : outbound'[s] = outbound[s] ]_vars

\* the Result of a read is a Control/ConfigResponse with a parseable config
IsValidConfigResponse(read) ==
    /\ read.ok
    /\ LET response == unpack(read.val)
       IN  /\ response.ok
           /\ response.val.packet_type = "Control"
           /\ response.val.control_type = "ConfigResponse"
           /\ Len(response.val.payload) >= 12

\* the Result of a read is a frame that unpacks to something else than a
\* Control/ConfigResponse
IsWrongTypeResponse(read) ==
    /\ read.ok
    /\ LET response == unpack(read.val)
       IN  /\ response.ok
           /\ \/ response.val.packet_type # "Control"
              \/ response.val.control_type # "ConfigResponse"

\* C13: the client is connected, and has a heartbeat task, only if the first
\* frame read after the ConfigRequest was a Control/ConfigResponse with a
\* parseable config; otherwise new returns the error to its caller
\* (Protocol("Invalid handshake response") for a frame of another type),
\* connected is false and there is no heartbeat task.
C13_HandshakeGate ==
    /\ (connected \/ client_thread = Some \/ hb_pc # "unspawned")
       => IsValidConfigResponse(c_first)
    /\ (c_op = "handshake" /\ c_pc = "closed")
       => /\ ~c_res.ok
          /\ c_res.kind # "Panic"
          /\ ~connected
          /\ client_thread = None
          /\ hb_pc = "unspawned"
          /\ IsWrongTypeResponse(c_first)
             => c_res = Err("Protocol", "Invalid handshake response")

C15_NoInterleavedWrites ==
    [][ /\ (c_pc = "write_body" /\ hb_pc' # hb_pc) => c_wire' = c_wire
        /\ (hb_pc = "write_body" /\ c_pc' # c_pc) => c_wire' = c_wire ]_vars

\* C16: a disconnect that has sent Control/Disconnect and cleared connected
\* gets the heartbeat task to stop and returns, whatever the server does.
C16_DisconnectReturns == (c_pc = "join") ~> (c_pc \in {"idle", "closed"})

\* the step completes a Control/Disconnect frame of the caller's thread
WritesDisconnect ==
    /\ c_pc = "write_body"
    /\ c_pc' # "write_body"
    /\ c_frame = ControlFrame("Disconnect")
    /\ Len(c_wire') = Len(c_wire) + 1

\* C17: a disconnect called while connected is false (as after a successful
\* disconnect) writes nothing, joins nothing and returns Ok, and so does the
\* one drop runs; the drop of a connected client starts the write of
\* Control/Disconnect; every Control/Disconnect frame written takes connected
\* from true to false, and connected is never set again (at most one frame).
C17_DisconnectIdempotent ==
    [][ /\ (c_calls' = Append(c_calls, "disconnect") /\ ~connected)
           => /\ c_res' = Ok(NoValue)
              /\ c_pc' = "idle"
              /\ UNCHANGED << c_wire, hb_pc, client_thread >>
        /\ (c_op # "drop" /\ c_op' = "drop" /\ ~connected)
           => /\ c_pc' = "closed"
              /\ UNCHANGED << c_wire, hb_pc, client_thread >>
        /\ (c_op # "drop" /\ c_op' = "drop" /\ connected)
           => /\ c_pc' = "write_len"
              /\ c_frame' = ControlFrame("Disconnect")
        /\ WritesDisconnect => (connected /\ ~connected')
        /\ (c_op \in {"disconnect", "drop"} /\ ~connected) => ~connected'
        /\ c_op \in {"disconnect", "drop"} => c_op' # "handshake" ]_vars

\* C17 witness: the second of two disconnect calls returned Ok, and the drop
\* of the client, no longer connected, closed it without a write
C17_Witness ==
    /\ c_calls = << "disconnect", "disconnect" >>
    /\ c_op = "drop"
    /\ c_pc = "closed"
    /\ c_res.ok
    /\ ~connected

\* C18: a step of the heartbeat task leaves connected, the caller's position
\* and the caller's last Result alone; what it writes is a Keepalive frame;
\* after the body of one frame it sleeps for the interval before the next
\* test; it ends exactly on a test that finds the shutdown flag set or on a
\* write that failed.
C18_HeartbeatLoop ==
    [][ (hb_pc # "unspawned" /\ hb_pc' # hb_pc)
        => /\ UNCHANGED << connected, client_thread, c_pc, c_res >>
           /\ Len(c_wire') > Len(c_wire)
              => /\ c_wire'[Len(c_wire')].writer = "heartbeat"
                 /\ c_wire'[Len(c_wire')].frame = KeepaliveFrame
           /\ hb_pc' = "ended"
              <=> \/ hb_pc = "test" /\ client_shutdown
                  \/ hb_pc \in {"write_len", "write_body"} /\ c_wire' = c_wire
           /\ hb_pc' = "write_len" => hb_pc = "test"
           /\ hb_pc' = "write_body" => hb_pc = "write_len"
           /\ hb_pc' = "sleep" => hb_pc = "write_body"
           /\ hb_pc' = "test" => hb_pc = "sleep" ]_vars

\* C18 witness: the heartbeat task has ended on a failed write after a whole
\* Keepalive frame of its own, and the client is connected with Ok as the
\* last Result
C18_Witness ==
    /\ hb_pc = "ended"
    /\ connected
    /\ c_pc = "idle"
    /\ c_res.ok
    /\ \E i \in 1..Len(c_wire) :
          c_wire[i] = Chunk("heartbeat", "body", KeepaliveFrame)

C20_ReaperStopsOnShutdown ==
    [][ (shutdown_flag /\ r_pc = "sleep") => r_pc' = "sleep" ]_vars

\* the step is the worker's read on session s
ReadStep(s) == w_pc = "iter" /\ w_pc' # "iter" /\ w_cur' = s

\* C22: a length prefix above 65535 makes the server's read fail with a
\* Protocol error with the body left unread and nothing written, and the
\* result step of that pass removes the session (its stream is closed,
\* which is what its client then observes); a frame the read hands on has a
\* length of at most 65535; and the client's read fails with a Protocol
\* error on such a prefix too.
C22_OversizeRejected ==
    /\ \A frame \in ServerFrames :
         (frame.arrived # "none" /\ frame.len > 65535)
         => /\ ~client_read_packet(frame).ok
            /\ client_read_packet(frame).kind = "Protocol"
    /\ [][ /\ \A s \in DOMAIN clients :
                (/\ ReadStep(s)
                 /\ clients[s].stream # <<>>
                 /\ Head(clients[s].stream).arrived # "torn"
                 /\ Head(clients[s].stream).len > 65535)
                => /\ w_pc' = "result"
                   /\ w_res'.kind = "Protocol"
                   /\ Len(clients'[s].stream) = Len(clients[s].stream)
                   /\ Head(clients'[s].stream).arrived = "torn"
                   /\ outbound' = outbound
           /\ \A s \in DOMAIN clients :
                (ReadStep(s) /\ w_pc' = "dispatch")
                => Head(clients[s].stream).len <= 65535
           /\ (ResultStep /\ w_res.kind = "Protocol")
              => (w_cur \notin DOMAIN clients' /\ outbound' = outbound) ]_vars

\* C22 witness: the read of the only frame sent, an oversize one, has
\* returned the Protocol error and left the body in the stream
C22_Witness ==
    /\ w_pc = "result"
    /\ nframes = 1
    /\ w_res = Err("Protocol", "Packet too large")
    /\ w_cur \in DOMAIN clients
    /\ clients[w_cur].stream = << Torn >>
    /\ outbound[w_cur] = <<>>

\* C24: between two visits of the worker no session's stream is positioned
\* in the middle of a frame, also when a frame arrived in pieces (so the
\* frames handed to the dispatcher are the frames written, in order).
C24_WholeFramesInOrder ==
    w_pc \in {"loop", "iter"}
    => \A s \in DOMAIN clients :
          \A i \in 1..Len(clients[s].stream) :
             clients[s].stream[i].arrived # "torn"

\* C25: a visit to a session with fewer than 4 readable bytes raises no
\* error, consumes nothing, writes nothing and changes neither last_seen nor
\* any table, and the session is not removed for it.
C25_NoFrameTick ==
    [][ /\ \A s \in DOMAIN clients :
             (ReadStep(s) /\ clients[s].stream = <<>>)
             => /\ w_res'.kind \in {"Ok", "Pending"}
                /\ UNCHANGED << clients, outbound, routes, client_configs >>
        /\ (ResultStep /\ w_res.msg = "Data too short")
           => UNCHANGED << clients, outbound, routes, client_configs >> ]_vars

\* C26: for a packet whose control_type is present when it is a Control
\* packet, unpack(pack(p)) is a packet with p's source_ip, dest_ip,
\* packet_type and payload, and with p's control_type when p is Control and
\* none otherwise.
C26_PackUnpackRoundTrip ==
    codec.op = "pack_unpack"
    => LET p == codec.in.packet
           r == codec.out
       IN  /\ r.ok
           /\ r.val.source_ip = p.source_ip
           /\ r.val.dest_ip = p.dest_ip
           /\ r.val.packet_type = p.packet_type
           /\ r.val.payload = p.payload
           /\ r.val.control_type =
                 IF p.packet_type = "Control" THEN p.control_type ELSE None

\* C26 witness: a Data packet with a payload and a control_type came back
\* with the payload and without the control_type
C26_Witness ==
    /\ codec.op = "pack_unpack"
    /\ codec.in.packet.packet_type = "Data"
    /\ codec.in.packet.control_type = "Disconnect"
    /\ codec.in.packet.payload = PayloadOf(1)
    /\ codec.out.ok
    /\ codec.out.val.payload = PayloadOf(1)
    /\ codec.out.val.control_type = None

\* C27: unpack returns a packet only for a plaintext of at least 10 bytes,
\* and for a plaintext of 0 to 9 bytes it returns a Protocol error.
C27_ShortPlaintextIsProtocol ==
    codec.op = "unpack_plain"
    => /\ codec.out.ok => Len(codec.in.bytes) >= 10
       /\ Len(codec.in.bytes) < 10 => codec.out.kind = "Protocol"

\* C28: decrypt on an input of 0 to 11 bytes fails with an Encryption error
\* that carries "Data too short".
C28_ShortInputIsEncryption ==
    (codec.op = "decrypt" /\ Len(codec.in.bytes) < 12)
    => codec.out = Err("Encryption", "Data too short")

\* C29: for a plaintext of at least 10 bytes, a packet-type byte outside
\* {0,1,2} gives Protocol("Invalid packet type"), packet-type 2 with a
\* control-type byte outside {0,1,2,3} gives Protocol("Invalid control
\* type"), and for packet-type 0 or 1 unpack succeeds whatever the
\* control-type byte is.
C29_TypeBytesValidated ==
    (codec.op = "unpack_plain" /\ Len(codec.in.bytes) >= 10)
    => LET pt == codec.in.bytes[9]
           ct == codec.in.bytes[10]
       IN  /\ pt \notin {0, 1, 2}
              => codec.out = Err("Protocol", "Invalid packet type")
           /\ (pt = 2 /\ ct \notin {0, 1, 2, 3})
              => codec.out = Err("Protocol", "Invalid control type")
           /\ pt \in {0, 1}
              => /\ codec.out.ok
                 /\ codec.out.val.control_type = None

\* C29 witness: a Data plaintext with the control-type byte 255 was unpacked
C29_Witness ==
    /\ codec.op = "unpack_plain"
    /\ Len(codec.in.bytes) >= 10
    /\ codec.in.bytes[9] = 0
    /\ codec.in.bytes[10] = 255
    /\ codec.out.ok

\* C30: decrypt(encrypt(b)) is b, and encrypt(b) with one byte changed, in
\* the nonce, the body or the tag, makes decrypt fail with an Encryption
\* error.
C30_EncryptDecryptRoundTrip ==
    /\ codec.op = "encrypt_decrypt" => codec.out = Ok(codec.in.bytes)
    /\ codec.op = "tamper_decrypt"
       => (~codec.out.ok /\ codec.out.kind = "Encryption")

\* C30 witness: a byte of the tag of a sealed 11-byte input was changed and
\* decrypt failed
C30_Witness ==
    /\ codec.op = "tamper_decrypt"
    /\ Len(codec.in.bytes) = 11
    /\ codec.pos > NonceLen + 11
    /\ ~codec.out.ok

\* C23: no frame on the wire, written by the client or by the server, has a
\* ciphertext longer than 65535 bytes.
C23_FramesWithinCeiling ==
    /\ \A i \in 1..Len(c_wire) : c_wire[i].frame.len <= 65535
    /\ \A s \in ClientIds :
          \A i \in 1..Len(outbound[s]) : outbound[s][i].len <= 65535

StageOrder ==
    << "running", "join_worker", "join_reaper", "join_acceptor",
       "drop_table", "returned" >>

StageIndex(pc) == CHOOSE i \in 1..Len(StageOrder) : StageOrder[i] = pc

\* C21: shutdown goes through its stages in order (flag, worker joined,
\* reaper joined, acceptor joined, table dropped), each stage only once the
\* thread it joins has ended; the first failure is the error kept; and once
\* begun, shutdown performs every stage and returns.
C21_ShutdownStages ==
    /\ [][ /\ s_pc' # s_pc
              => /\ StageIndex(s_pc') = StageIndex(s_pc) + 1
                 /\ s_pc = "running" => shutdown_flag'
                 /\ s_pc = "join_worker" => w_pc \in {"done", "panicked"}
                 /\ s_pc = "join_reaper" => r_pc \in {"done", "panicked"}
                 /\ s_pc = "join_acceptor" => a_pc = "done"
                 /\ s_pc = "drop_table" => clients' = EmptyMap
           /\ ~s_res.ok => s_res' = s_res
           /\ (s_pc = "join_worker" /\ s_pc' # s_pc /\ w_pc = "panicked")
              => ~s_res'.ok ]_vars
    /\ (s_pc = "join_worker") ~> (s_pc = "returned")

\* C31: parse_route_updates succeeds exactly when the payload length is a
\* multiple of 16; it then returns len/16 entries, entry i made of the four
\* 4-byte fields at bytes 16i..16i+15 with the metric read big-endian; and
\* otherwise it returns a Protocol error.
C31_RouteParse ==
    codec.op = "parse_route_updates"
    => LET b == codec.in.bytes
           r == codec.out
       IN  /\ r.ok <=> Len(b) % 16 = 0
           /\ ~r.ok => r.kind = "Protocol"
           /\ r.ok
              => /\ Len(r.val) * 16 = Len(b)
                 /\ \A i \in 1..Len(r.val) :
                      LET at == 16 * (i - 1)
                      IN  /\ r.val[i].target_network = SubSeq(b, at + 1, at + 4)
                          /\ r.val[i].network_mask = SubSeq(b, at + 5, at + 8)
                          /\ r.val[i].next_hop = SubSeq(b, at + 9, at + 12)
                          /\ r.val[i].metric =
                                b[at + 13] * 16777216 + b[at + 14] * 65536
                                  + b[at + 15] * 256 + b[at + 16]

\* C31 witness: a payload of two entries was parsed into two entries
C31_Witness ==
    /\ codec.op = "parse_route_updates"
    /\ Len(codec.in.bytes) = 32
    /\ codec.out.ok
    /\ Len(codec.out.val) = 2
    /\ codec.out.val[2].metric = 2

\* a 64-bit value that fits in 32 bits
FitsU32(word) == SubSeq(word, 1, 4) = <<0, 0, 0, 0>>

\* C39: a config whose mtu and whole-second keepalive fit in 32 bits comes
\* back from from_bytes(serialize_config(c)) unchanged; for any config the
\* fields come back reduced to their low 32 bits, so the encoding is three
\* 32-bit words in the order mtu, keepalive, reconnect_attempts; and
\* from_bytes on fewer than 12 bytes is a Protocol error.
C39_ConfigRoundTrip ==
    /\ codec.op = "config_round_trip"
       => LET c == codec.in.config
              r == codec.out
          IN  /\ r.ok
              /\ (/\ FitsU32(c.mtu)
                  /\ FitsU32(c.keepalive_interval.secs)
                  /\ c.keepalive_interval.nanos = 0) => r.val = c
              /\ FitsU32(r.val.mtu)
              /\ FitsU32(r.val.keepalive_interval.secs)
              /\ \A i \in 5..8 :
                    /\ r.val.mtu[i] = c.mtu[i]
                    /\ r.val.keepalive_interval.secs[i]
                          = c.keepalive_interval.secs[i]
              /\ r.val.reconnect_attempts = c.reconnect_attempts
    /\ (codec.op = "config_from_bytes" /\ Len(codec.in.bytes) < 12)
       => codec.out = Err("Protocol", "Config data too short")

\* C39 witness: an mtu of 2^32 + 1500 came back as 1500
C39_Witness ==
    /\ codec.op = "config_round_trip"
    /\ codec.in.config.mtu = <<0, 0, 0, 1, 0, 0, 5, 220>>
    /\ codec.in.config.keepalive_interval = from_secs(<<0, 0, 0, 0, 0, 0, 0, 30>>)
    /\ codec.out.ok
    /\ codec.out.val.mtu = <<0, 0, 0, 0, 0, 0, 5, 220>>

\* the step is the worker's handling of a Control/RouteUpdate
RouteUpdateStep ==
    /\ w_pc = "dispatch"
    /\ w_pc' # "dispatch"
    /\ w_pkt.packet_type = "Control"
    /\ w_pkt.control_type = "RouteUpdate"

IsRouteAck(frame) ==
    LET reply == unpack(frame.body)
    IN  /\ reply.ok
        /\ reply.val.packet_type = "Control"
        /\ reply.val.control_type = "RouteUpdate"
        /\ reply.val.payload = <<1>>

\* C32: handling a RouteUpdate of session s whose payload length is a
\* multiple of 16 replaces the route list of s by the len/16 parsed entries,
\* leaves the lists of the other sessions as they are, and writes exactly
\* one Control/RouteUpdate frame with payload 0x01 to s (a write that the
\* stream refuses aside).
C32_RouteUpdateReplaces ==
    [][ (/\ RouteUpdateStep
         /\ Len(w_pkt.payload) % 16 = 0
         /\ w_res'.kind # "Io")
        => /\ w_cur \in DOMAIN routes'
           /\ Len(routes'[w_cur]) * 16 = Len(w_pkt.payload)
           /\ \A i \in 1..Len(routes'[w_cur]) :
                 routes'[w_cur][i].target_network
                    = SubSeq(w_pkt.payload, 16 * i - 15, 16 * i - 12)
           /\ \A s \in DOMAIN routes \ {w_cur} :
                 s \in DOMAIN routes' /\ routes'[s] = routes[s]
           /\ DOMAIN routes' = DOMAIN routes \cup {w_cur}
           /\ Len(outbound'[w_cur]) = Len(outbound[w_cur]) + 1
           /\ IsRouteAck(outbound'[w_cur][Len(outbound'[w_cur])])
           /\ \A s \in ClientIds \ {w_cur} : outbound'[s] = outbound[s] ]_vars

\* C33: handling a RouteUpdate whose payload length is not a multiple of 16
\* changes no route list and writes nothing, and the result step that
\* follows removes the session, as for any Protocol error, still without
\* touching the route table.
C33_BadRouteUpdateRemoves ==
    [][ /\ (RouteUpdateStep /\ Len(w_pkt.payload) % 16 # 0)
           => /\ w_pc' = "result"
              /\ w_res'.kind = "Protocol"
              /\ UNCHANGED << routes, outbound, client_configs >>
        /\ (ResultStep /\ w_res.msg = "Invalid route update payload length")
           => /\ w_cur \notin DOMAIN clients'
              /\ UNCHANGED << routes, outbound >> ]_vars

\* C33 witness: the session that sent the short RouteUpdate has been removed
\* and has no route list and no reply
C33_Witness ==
    /\ w_pc = "iter"
    /\ w_res = Err("Protocol", "Invalid route update payload length")
    /\ w_cur \in accepted
    /\ w_cur \notin DOMAIN clients
    /\ w_cur \notin DOMAIN routes
    /\ outbound[w_cur] = <<>>

\* C38: an entry enters the session table only at an accept, keyed by the
\* address accepted and with last_seen the time of the accept; an entry
\* leaves it only when the reaper removes it and it is stale, when the
\* worker's result step acts on a fatal error of its visit, or when the
\* worker completes its Disconnect; so a fresh session without error or
\* Disconnect stays, and neither worker nor reaper inserts.
C38_TableChanges ==
    [][ /\ \A s \in DOMAIN clients' \ DOMAIN clients :
              /\ a_pc = "accept"
              /\ a_pc' = "loop"
              /\ s \in accepted' \ accepted
              /\ clients'[s] = ClientInfo(<<>>, now)
        /\ \A s \in DOMAIN clients \ DOMAIN clients' :
              \/ /\ r_pc = "remove"
                 /\ s \in r_stale
                 /\ now - clients[s].last_seen > StaleTimeout
              \/ /\ ResultStep
                 /\ w_cur = s
                 /\ w_res.kind \in {"ClientNotFound", "Protocol"}
              \/ /\ w_pc = "disconnect"
                 /\ w_cur = s ]_vars

\* a complete frame is at the head of the stream of session s, which holds
\* n frames
FramePending(s, n) ==
    /\ s \in DOMAIN clients
    /\ Len(clients[s].stream) = n
    /\ Head(clients[s].stream).arrived = "whole"

\* C37: the worker reads a session only when its id is in what is left of
\* the snapshot of the pass, and the read takes the id out of it (at most one
\* frame per session per pass); and a complete frame pending on a session is
\* eventually read by the worker, unless the session leaves the table or the
\* shutdown flag is set, whatever the other sessions send.
C37_PendingFrameHandled ==
    /\ [][ \A s \in ClientIds :
             ReadStep(s) => (s \in w_ids /\ s \notin w_ids') ]_vars
    /\ \A s \in ClientIds : \A n \in 1..MaxFrames :
          FramePending(s, n)
             ~> \/ s \notin DOMAIN clients
                \/ shutdown_flag
                \/ Len(clients[s].stream) < n

\* the step appends what a call of server_shutdown returned
ShutdownReturns ==
    /\ Len(ss_log') = Len(ss_log) + 1
    /\ ss_log'[Len(ss_log')].op = "server_shutdown"

Rank(l) ==
    CASE l = "routes" -> 1
      [] l = "clients" -> 3
      [] OTHER -> 2

\* thread t waits in lock() for a mutex another thread holds
Waits(t) == Todo(t).op = "acq" /\ Holder(Todo(t).on) # NoThread

\* thread u is reached from thread t in n steps of waits-for
RECURSIVE WaitsFor(_, _, _)
WaitsFor(t, u, n) ==
    /\ n > 0
    /\ Waits(t)
    /\ \/ Holder(Todo(t).on) = u
       \/ WaitsFor(Holder(Todo(t).on), u, n - 1)

\* a thread asks for a mutex only while every guard it holds is of a mutex
\* earlier in the order routes < {client_configs, protocol_handler, server}
\* < clients, and no thread waits, directly or through others, for itself
LockOrder ==
    \A t \in Threads :
       /\ Todo(t).op = "acq" =>
             /\ \A l \in Held(t) : Rank(l) < Rank(Todo(t).on)
             /\ Todo(t).on \in {"routes", "client_configs"}
                   => Held(t) \cap {"server", "clients"} = {}
             /\ Todo(t).on \in {"client_configs", "protocol_handler"}
                   => Held(t) \subseteq {"routes"}
       /\ ~WaitsFor(t, t, Cardinality(Threads))

C36_StreamOpsUnderLock ==
    /\ \A t \in Threads : Todo(t).op = "io" => Holder("clients") = t
    /\ Cardinality({ t \in Threads : Todo(t).op = "io" }) <= 1

\* a worker reads a stream while the other worker and the reaper wait
C36_Witness ==
    /\ Todo("worker1") = Io("read")
    /\ Todo("reaper") = Acq("clients")
    /\ Todo("worker2") = Acq("server")
    /\ Holder("clients") = "worker1"

\* the server's reply to a request: the echo of a Data packet, a
\* ConfigResponse to a ConfigRequest, the one-byte acknowledgement of a
\* RouteUpdate
IsReplyTo(reply, request) ==
    IF request.packet_type = "Data"
    THEN reply = process_data_packet(request)
    ELSE /\ reply.packet_type = "Control"
         /\ IF request.control_type = "ConfigRequest"
            THEN reply.control_type = "ConfigResponse"
            ELSE reply.control_type = "RouteUpdate" /\ reply.payload = <<1>>

\* C34: the frame a send_packet returns is the server's reply to the request
\* that call wrote, whatever Keepalives the heartbeat sends in between.
C34_ReplyMatchesRequest ==
    [][ ( /\ c_op = "send_packet"
          /\ c_pc = "read"
          /\ c_pc' # "read"
          /\ c_res'.ok )
        => IsReplyTo(c_res'.val, unpack(c_frame.body).val) ]_vars

====
